---- MODULE Spec2Model ----
(***************************************************************************)
(* A model of docker-inspector: the differ (Compare), the wrapper's main   *)
(* in comparison mode, the path transform of extraction (getDestPath) and  *)
(* the in-container inspector (walk, hash, sort).                          *)
(*                                                                         *)
(* Strings are TLA+ strings; TLC evaluates Len, Head, Tail, SubSeq and \o  *)
(* on them, so prefix tests, splitting and byte-wise ordering are computed *)
(* character by character as the Go code does.                             *)
(***************************************************************************)
EXTENDS Integers, Sequences, FiniteSets, TLC

VARIABLES
    old,        \* Compare: the first snapshot ([]FileInfo)
    new,        \* Compare: the second snapshot ([]FileInfo)
    mode,       \* Compare: CompareAll or CompareNoTimes
    result,     \* Compare: the *Result it returned (NoResult before the call)
    cpc,        \* position: "idle", "call" (inputs chosen), "done" (Compare returned)
    inspector,  \* the inspector: which of the three main functions is running
    tree,       \* the paths that exist in the container's filesystem
    args,       \* the inspector's Args
    todo,       \* filepath.Walk: the nodes still to visit, in order, with their depth
    files,      \* the inspector's `files` slice
    walkErr,    \* the error filepath.Walk returned ("" is nil)
    wpc,        \* the inspector's position: "idle", "walk", "walked", "sorted", "exit"
    exitStatus, \* the inspector's exit status (-1 while it runs)
    stdout,     \* what the inspector wrote to its standard output (<<>> is nothing)
    sourcePath,      \* extraction loop: file.Path of the entry at hand
    stripComponents, \* args.StripComponents
    outputDir,       \* args.OutputDir
    destPath,        \* extraction loop: destPath
    fullDestPath,    \* extraction loop: fullDestPath ("" before it is set)
    dpc,             \* extraction loop: "idle", "loop", "dest", "skipped", "copy"
    margs,           \* docker-inspector: the Args of main
    files1JSON,      \* docker-inspector: what runInspector(args.Image1) returned
    files2JSON,      \* docker-inspector: what runInspector(args.Image2) returned
    files1,          \* docker-inspector: files1
    files2,          \* docker-inspector: files2
    mainResult,      \* docker-inspector: result of Compare
    mainOut,         \* docker-inspector: what main wrote to standard output
    mainExit,        \* docker-inspector: exit status (-1 while it runs)
    mpc,             \* docker-inspector: position of main
    script,          \* docker-inspector: the chown commands of fixOwnershipWithSudo
    broken,          \* the system calls that fail in this run: pairs <<path, call>>
    targetFs,        \* the filesystem under args.OutputDir: path -> node
    stderr,          \* the warnings the inspector wrote to standard error
    calls,           \* the system calls the extraction made on the target, in order
    xi               \* extraction loop: index into files of the entry at hand

cmpVars == <<old, new, mode, result, cpc>>
walkVars == <<inspector, tree, args, todo, files, walkErr, wpc, exitStatus, stdout>>
destVars == <<sourcePath, stripComponents, outputDir, destPath, fullDestPath, dpc>>
mainVars == <<margs, files1JSON, files2JSON, files1, files2, mainResult, mainOut,
              mainExit, mpc, script>>
extVars == <<broken, targetFs, stderr, calls, xi>>
vars == <<cmpVars, walkVars, destVars, mainVars, extVars>>

-----------------------------------------------------------------------------
(* Bounds *)

\* the longest snapshot handed to Compare
MaxLen == 2

\* the most nodes below / in a walked filesystem
MaxNodes == 4

\* the largest value of --strip-components
MaxStrip == 3

\* the most system calls that fail in one run
MaxFaults == 1

-----------------------------------------------------------------------------
(* Strings: Go compares strings byte by byte *)

\* the characters of the model's paths, in ascending byte order
\* ('-' 0x2d, '.' 0x2e, '/' 0x2f, digits, lower-case letters)
Alphabet == "-./0123456789abcdefghijklmnopqrstuvwxyz"

RECURSIVE IndexIn(_, _, _)
IndexIn(c, s, i) ==
    IF i > Len(s) THEN 0
    ELSE IF SubSeq(s, i, i) = c THEN i
    ELSE IndexIn(c, s, i + 1)

\* the rank of a character in byte order
Byte(c) == IndexIn(c, Alphabet, 1)

\* a < b for Go strings
RECURSIVE StrLess(_, _)
StrLess(a, b) ==
    IF b = "" THEN FALSE
    ELSE IF a = "" THEN TRUE
    ELSE IF Head(a) = Head(b) THEN StrLess(Tail(a), Tail(b))
    ELSE Byte(Head(a)) < Byte(Head(b))

\* strings.HasPrefix
HasPrefix(s, prefix) ==
    /\ Len(s) >= Len(prefix)
    /\ SubSeq(s, 1, Len(prefix)) = prefix

\* the permutations of a finite set, as sequences
RECURSIVE Perms(_)
Perms(S) ==
    IF S = {} THEN {<<>>}
    ELSE UNION {{<<x>> \o p : p \in Perms(S \ {x})} : x \in S}

-----------------------------------------------------------------------------
(* The differ *)

CompareAll == "CompareAll"
CompareNoTimes == "CompareNoTimes"

Added == "added"
Removed == "removed"
Modified == "modified"

\* a *time.Time: <<>> is nil, <<t>> points to the time t (seconds)
NilTime == <<>>

\* the zero value of FileInfo
ZeroFileInfo ==
    [Path |-> "", Size |-> 0, Mode |-> "", ModTime |-> NilTime, IsDir |-> FALSE,
     SymlinkTo |-> "", User |-> "", Group |-> "", MD5 |-> ""]

\* time.Time.Format(time.RFC3339), for the times of the model (0..9 seconds
\* after the epoch, UTC)
FormatRFC3339(t) == "1970-01-01T00:00:0" \o ToString(t) \o "Z"

\* isSpecialFile without /etc/hostname
isSpecialFileNoHostname(path) ==
    \/ HasPrefix(path, "/proc/")
    \/ HasPrefix(path, "/sys/")
    \/ HasPrefix(path, "/dev/")
    \/ path = "/etc/resolv.conf"
    \/ path = "/etc/hosts"

\* isSpecialFile: files we want to ignore
isSpecialFile(path) ==
    \/ HasPrefix(path, "/proc/")
    \/ HasPrefix(path, "/sys/")
    \/ HasPrefix(path, "/dev/")
    \/ path = "/etc/resolv.conf"
    \/ path = "/etc/hostname"
    \/ path = "/etc/hosts"

\* compareFiles with the two *time.Time pointers compared instead of the
\* times they point to: two non-nil pointers of two parsed snapshots differ
compareFilesPointerTimes(o, n, m) ==
    (IF o.Size # n.Size
        THEN <<"size changed: " \o ToString(o.Size) \o " -> " \o ToString(n.Size)>>
        ELSE <<>>)
    \o
    (IF o.Mode # n.Mode
        THEN <<"permissions changed: " \o o.Mode \o " -> " \o n.Mode>>
        ELSE <<>>)
    \o
    (IF o.User # n.User \/ o.Group # n.Group
        THEN <<"ownership changed: " \o o.User \o ":" \o o.Group
                 \o " -> " \o n.User \o ":" \o n.Group>>
        ELSE <<>>)
    \o
    (IF m = CompareAll /\ o.ModTime # NilTime /\ n.ModTime # NilTime
        THEN <<"modification time changed: " \o FormatRFC3339(o.ModTime[1])
                 \o " -> " \o FormatRFC3339(n.ModTime[1])>>
        ELSE <<>>)
    \o
    (IF o.MD5 # "" /\ n.MD5 # "" /\ o.MD5 # n.MD5
        THEN <<"content changed (different MD5)">>
        ELSE <<>>)

\* compareFiles reporting a size change only when the file grew
compareFilesGrowOnly(o, n, m) ==
    (IF o.Size < n.Size
        THEN <<"size changed: " \o ToString(o.Size) \o " -> " \o ToString(n.Size)>>
        ELSE <<>>)
    \o
    (IF o.Mode # n.Mode
        THEN <<"permissions changed: " \o o.Mode \o " -> " \o n.Mode>>
        ELSE <<>>)
    \o
    (IF o.User # n.User \/ o.Group # n.Group
        THEN <<"ownership changed: " \o o.User \o ":" \o o.Group
                 \o " -> " \o n.User \o ":" \o n.Group>>
        ELSE <<>>)
    \o
    (IF m = CompareAll /\ o.ModTime # NilTime /\ n.ModTime # NilTime
            /\ o.ModTime[1] # n.ModTime[1]
        THEN <<"modification time changed: " \o FormatRFC3339(o.ModTime[1])
                 \o " -> " \o FormatRFC3339(n.ModTime[1])>>
        ELSE <<>>)
    \o
    (IF o.MD5 # "" /\ n.MD5 # "" /\ o.MD5 # n.MD5
        THEN <<"content changed (different MD5)">>
        ELSE <<>>)

\* compareFiles comparing the times in either mode
compareFilesAnyMode(o, n, m) ==
    (IF o.Size # n.Size
        THEN <<"size changed: " \o ToString(o.Size) \o " -> " \o ToString(n.Size)>>
        ELSE <<>>)
    \o
    (IF o.Mode # n.Mode
        THEN <<"permissions changed: " \o o.Mode \o " -> " \o n.Mode>>
        ELSE <<>>)
    \o
    (IF o.User # n.User \/ o.Group # n.Group
        THEN <<"ownership changed: " \o o.User \o ":" \o o.Group
                 \o " -> " \o n.User \o ":" \o n.Group>>
        ELSE <<>>)
    \o
    (IF o.ModTime # NilTime /\ n.ModTime # NilTime /\ o.ModTime[1] # n.ModTime[1]
        THEN <<"modification time changed: " \o FormatRFC3339(o.ModTime[1])
                 \o " -> " \o FormatRFC3339(n.ModTime[1])>>
        ELSE <<>>)
    \o
    (IF o.MD5 # "" /\ n.MD5 # "" /\ o.MD5 # n.MD5
        THEN <<"content changed (different MD5)">>
        ELSE <<>>)

\* compareFiles taking a missing hash for a different hash
compareFilesAnyHash(o, n, m) ==
    (IF o.Size # n.Size
        THEN <<"size changed: " \o ToString(o.Size) \o " -> " \o ToString(n.Size)>>
        ELSE <<>>)
    \o
    (IF o.Mode # n.Mode
        THEN <<"permissions changed: " \o o.Mode \o " -> " \o n.Mode>>
        ELSE <<>>)
    \o
    (IF o.User # n.User \/ o.Group # n.Group
        THEN <<"ownership changed: " \o o.User \o ":" \o o.Group
                 \o " -> " \o n.User \o ":" \o n.Group>>
        ELSE <<>>)
    \o
    (IF m = CompareAll /\ o.ModTime # NilTime /\ n.ModTime # NilTime
            /\ o.ModTime[1] # n.ModTime[1]
        THEN <<"modification time changed: " \o FormatRFC3339(o.ModTime[1])
                 \o " -> " \o FormatRFC3339(n.ModTime[1])>>
        ELSE <<>>)
    \o
    (IF o.MD5 # n.MD5
        THEN <<"content changed (different MD5)">>
        ELSE <<>>)

\* compareFiles: the list of differences between two files
compareFiles(o, n, m) ==
    (IF o.Size # n.Size
        THEN <<"size changed: " \o ToString(o.Size) \o " -> " \o ToString(n.Size)>>
        ELSE <<>>)
    \o
    (IF o.Mode # n.Mode
        THEN <<"permissions changed: " \o o.Mode \o " -> " \o n.Mode>>
        ELSE <<>>)
    \o
    (IF o.User # n.User \/ o.Group # n.Group
        THEN <<"ownership changed: " \o o.User \o ":" \o o.Group
                 \o " -> " \o n.User \o ":" \o n.Group>>
        ELSE <<>>)
    \o
    (IF m = CompareAll /\ o.ModTime # NilTime /\ n.ModTime # NilTime
            /\ o.ModTime[1] # n.ModTime[1]
        THEN <<"modification time changed: " \o FormatRFC3339(o.ModTime[1])
                 \o " -> " \o FormatRFC3339(n.ModTime[1])>>
        ELSE <<>>)
    \o
    (IF o.MD5 # "" /\ n.MD5 # "" /\ o.MD5 # n.MD5
        THEN <<"content changed (different MD5)">>
        ELSE <<>>)

\* the map built from a []FileInfo: special files are skipped, a later
\* entry with the same path overwrites an earlier one
RECURSIVE populate(_, _)
populate(fs, m) ==
    IF fs = <<>> THEN m
    ELSE LET f == Head(fs)
         IN  populate(Tail(fs),
                 IF isSpecialFile(f.Path)
                     THEN m
                     ELSE [p \in (DOMAIN m) \cup {f.Path} |->
                              IF p = f.Path THEN f ELSE m[p]])

EmptyMap == [p \in {} |-> ZeroFileInfo]

\* the first loop with the old entry stored as the new one as well
RECURSIVE removedLoopBothEntries(_, _, _)
removedLoopBothEntries(order, oldFiles, newFiles) ==
    IF order = <<>> THEN <<>>
    ELSE LET path == Head(order)
             rest == removedLoopBothEntries(Tail(order), oldFiles, newFiles)
         IN  IF path \notin DOMAIN newFiles
                 THEN <<[Path |-> path, Type |-> Removed,
                         OldFile |-> oldFiles[path], NewFile |-> oldFiles[path],
                         Details |-> <<>>]>> \o rest
                 ELSE rest

\* the first loop of Compare: the removed files, in the order `order` in
\* which range visits the keys of oldFiles
RECURSIVE removedLoop(_, _, _)
removedLoop(order, oldFiles, newFiles) ==
    IF order = <<>> THEN <<>>
    ELSE LET path == Head(order)
             rest == removedLoop(Tail(order), oldFiles, newFiles)
         IN  IF path \notin DOMAIN newFiles
                 THEN <<[Path |-> path, Type |-> Removed,
                         OldFile |-> oldFiles[path], NewFile |-> ZeroFileInfo,
                         Details |-> <<>>]>> \o rest
                 ELSE rest

\* the second loop without the `continue` of the added branch: an added
\* path is then also compared against the zero FileInfo
RECURSIVE addedModifiedLoopNoContinue(_, _, _, _)
addedModifiedLoopNoContinue(order, oldFiles, newFiles, m) ==
    IF order = <<>> THEN <<>>
    ELSE LET path == Head(order)
             rest == addedModifiedLoopNoContinue(Tail(order), oldFiles, newFiles, m)
             oldFile == IF path \in DOMAIN oldFiles THEN oldFiles[path] ELSE ZeroFileInfo
             differences == compareFiles(oldFile, newFiles[path], m)
         IN  (IF path \notin DOMAIN oldFiles
                  THEN <<[Path |-> path, Type |-> Added,
                          OldFile |-> ZeroFileInfo, NewFile |-> newFiles[path],
                          Details |-> <<>>]>>
                  ELSE <<>>)
             \o
             (IF Len(differences) > 0
                  THEN <<[Path |-> path, Type |-> Modified,
                          OldFile |-> oldFile, NewFile |-> newFiles[path],
                          Details |-> differences]>>
                  ELSE <<>>)
             \o rest

\* the second loop reporting a modification only for two deltas or more
RECURSIVE addedModifiedLoopTwoDeltas(_, _, _, _)
addedModifiedLoopTwoDeltas(order, oldFiles, newFiles, m) ==
    IF order = <<>> THEN <<>>
    ELSE LET path == Head(order)
             rest == addedModifiedLoopTwoDeltas(Tail(order), oldFiles, newFiles, m)
         IN  IF path \notin DOMAIN oldFiles
                 THEN <<[Path |-> path, Type |-> Added,
                         OldFile |-> ZeroFileInfo, NewFile |-> newFiles[path],
                         Details |-> <<>>]>> \o rest
                 ELSE LET differences == compareFiles(oldFiles[path], newFiles[path], m)
                      IN  IF Len(differences) > 1
                              THEN <<[Path |-> path, Type |-> Modified,
                                      OldFile |-> oldFiles[path],
                                      NewFile |-> newFiles[path],
                                      Details |-> differences]>> \o rest
                              ELSE rest

\* the second loop of Compare: the added and the modified files, in the
\* order `order` in which range visits the keys of newFiles
RECURSIVE addedModifiedLoop(_, _, _, _)
addedModifiedLoop(order, oldFiles, newFiles, m) ==
    IF order = <<>> THEN <<>>
    ELSE LET path == Head(order)
             rest == addedModifiedLoop(Tail(order), oldFiles, newFiles, m)
         IN  IF path \notin DOMAIN oldFiles
                 THEN <<[Path |-> path, Type |-> Added,
                         OldFile |-> ZeroFileInfo, NewFile |-> newFiles[path],
                         Details |-> <<>>]>> \o rest
                 ELSE LET differences == compareFiles(oldFiles[path], newFiles[path], m)
                      IN  IF Len(differences) > 0
                              THEN <<[Path |-> path, Type |-> Modified,
                                      OldFile |-> oldFiles[path],
                                      NewFile |-> newFiles[path],
                                      Details |-> differences]>> \o rest
                              ELSE rest

\* the number of entries of a sequence of diffs that carry the tag
RECURSIVE countType(_, _)
countType(diffs, t) ==
    IF diffs = <<>> THEN 0
    ELSE (IF Head(diffs).Type = t THEN 1 ELSE 0) + countType(Tail(diffs), t)

\* the counters with the total taken over the added and removed files only
summarizeNoModified(removedDiffs, addedModifiedDiffs) ==
    LET removedFiles == Len(removedDiffs)
        addedFiles == countType(addedModifiedDiffs, Added)
        modifiedFiles == countType(addedModifiedDiffs, Modified)
    IN  [TotalDifferences |-> addedFiles + removedFiles,
         AddedFiles |-> addedFiles,
         RemovedFiles |-> removedFiles,
         ModifiedFiles |-> modifiedFiles]

\* the counters of Compare: RemovedFiles++ in the first loop, AddedFiles++
\* and ModifiedFiles++ in the second, TotalDifferences their sum
summarize(removedDiffs, addedModifiedDiffs) ==
    LET removedFiles == Len(removedDiffs)
        addedFiles == countType(addedModifiedDiffs, Added)
        modifiedFiles == countType(addedModifiedDiffs, Modified)
    IN  [TotalDifferences |-> addedFiles + removedFiles + modifiedFiles,
         AddedFiles |-> addedFiles,
         RemovedFiles |-> removedFiles,
         ModifiedFiles |-> modifiedFiles]

\* Compare(old, new, mode), given the orders in which the two range loops
\* visit their maps (Go leaves the iteration order of a map unspecified)
Compare(o, n, m, oldOrder, newOrder) ==
    LET oldFiles == populate(o, EmptyMap)
        newFiles == populate(n, EmptyMap)
        removedDiffs == removedLoop(oldOrder, oldFiles, newFiles)
        addedModifiedDiffs == addedModifiedLoop(newOrder, oldFiles, newFiles, m)
    IN  [Differences |-> removedDiffs \o addedModifiedDiffs,
         Summary |-> summarize(removedDiffs, addedModifiedDiffs)]

\* the keys of the map Compare builds from a snapshot
keysOf(fs) == DOMAIN populate(fs, EmptyMap)

\* result := &Result{}
NoResult ==
    [Differences |-> <<>>,
     Summary |-> [TotalDifferences |-> 0, AddedFiles |-> 0,
                  RemovedFiles |-> 0, ModifiedFiles |-> 0]]

-----------------------------------------------------------------------------
(* The snapshots Compare is applied to *)

\* the attributes of the entries, one record per kind of entry: the two files
\* of the size scenario (no owner, no time, no hash), regular files that
\* differ in time only, in hash only, and in having neither, a file with
\* another mode and owner, a directory, and a symlink without a timestamp
Shapes ==
    <<[Path |-> "", Size |-> 10, Mode |-> "-rw-r--r--", ModTime |-> NilTime,
       IsDir |-> FALSE, SymlinkTo |-> "", User |-> "", Group |-> "", MD5 |-> ""],
      [Path |-> "", Size |-> 20, Mode |-> "-rw-r--r--", ModTime |-> NilTime,
       IsDir |-> FALSE, SymlinkTo |-> "", User |-> "", Group |-> "", MD5 |-> ""],
      [Path |-> "", Size |-> 10, Mode |-> "-rw-r--r--", ModTime |-> <<1>>,
       IsDir |-> FALSE, SymlinkTo |-> "", User |-> "root(0)", Group |-> "root(0)",
       MD5 |-> "0cc175b9c0f1b6a831c399e269772661"],
      [Path |-> "", Size |-> 10, Mode |-> "-rw-r--r--", ModTime |-> <<2>>,
       IsDir |-> FALSE, SymlinkTo |-> "", User |-> "root(0)", Group |-> "root(0)",
       MD5 |-> "0cc175b9c0f1b6a831c399e269772661"],
      [Path |-> "", Size |-> 10, Mode |-> "-rw-r--r--", ModTime |-> <<1>>,
       IsDir |-> FALSE, SymlinkTo |-> "", User |-> "root(0)", Group |-> "root(0)",
       MD5 |-> "92eb5ffee6ae2fec3ad71c777531578f"],
      [Path |-> "", Size |-> 10, Mode |-> "-rw-r--r--", ModTime |-> NilTime,
       IsDir |-> FALSE, SymlinkTo |-> "", User |-> "root(0)", Group |-> "root(0)",
       MD5 |-> ""],
      [Path |-> "", Size |-> 0, Mode |-> "drwxr-xr-x", ModTime |-> <<1>>,
       IsDir |-> TRUE, SymlinkTo |-> "", User |-> "root(0)", Group |-> "root(0)",
       MD5 |-> ""],
      [Path |-> "", Size |-> 16, Mode |-> "Lrwxrwxrwx", ModTime |-> NilTime,
       IsDir |-> FALSE, SymlinkTo |-> "../shared/lib.so", User |-> "root(0)",
       Group |-> "nginx(101)", MD5 |-> ""]>>

\* the paths of the compared snapshots: two ordinary paths and one path of
\* the differ's exclusion list
CmpPaths == {"/a", "/b", "/etc/hosts"}

\* the shapes an entry at a path is drawn from (two for an excluded path)
ShapesAt(p) ==
    IF isSpecialFile(p) THEN {Shapes[1], Shapes[2]} ELSE {Shapes[i] : i \in DOMAIN Shapes}

\* the paths of a set as a sequence sorted byte-wise
SortedSeq(Q) ==
    CHOOSE s \in Perms(Q) : \A i \in 1..(Len(s) - 1) : StrLess(s[i], s[i + 1])

\* the snapshots: path-sorted sequences of at most MaxLen entries, as the
\* inspector emits them
Snapshots ==
    UNION {
        LET paths == SortedSeq(Q)
        IN  {[i \in DOMAIN paths |-> [sh[paths[i]] EXCEPT !.Path = paths[i]]] :
                sh \in {f \in [Q -> {Shapes[i] : i \in DOMAIN Shapes}] :
                            \A p \in Q : f[p] \in ShapesAt(p)}}
        : Q \in {Q \in SUBSET CmpPaths : Cardinality(Q) <= MaxLen}}

Modes == {CompareAll, CompareNoTimes}

\* the entries compared for the gates of compareFiles: a regular file at /a
\* with each combination of two sizes, no or one of two modification times,
\* and no or one of two hashes
GateEntries ==
    {[Shapes[6] EXCEPT !.Path = "/a", !.Size = sz, !.ModTime = t, !.MD5 = h] :
        sz \in {10, 20},
        t \in {NilTime, <<1>>, <<2>>},
        h \in {"", Shapes[3].MD5, Shapes[5].MD5}}

\* the paths compared for the differ's exclusion list: one ordinary path and
\* the paths isSpecialFile names or covers
ExclPaths ==
    {"/a", "/dev/null", "/etc/hostname", "/etc/hosts", "/etc/resolv.conf",
     "/proc/1/stat", "/sys/kernel"}

\* path-sorted snapshots of at most MaxLen entries over ExclPaths, each entry
\* of size 10 or 20
ExclSnapshots ==
    UNION {
        LET paths == SortedSeq(Q)
        IN  {[i \in DOMAIN paths |-> [sh[paths[i]] EXCEPT !.Path = paths[i]]] :
                sh \in [Q -> {Shapes[1], Shapes[2]}]}
        : Q \in {Q \in SUBSET ExclPaths : Cardinality(Q) <= MaxLen}}

\* the entries of the lists handed to Compare as they come, unsorted and
\* with paths that may occur more than once: two ordinary paths with two
\* sizes each, and one path of the exclusion list
ListEntries ==
    {[Shapes[i] EXCEPT !.Path = q] : q \in {"/a", "/b"}, i \in {1, 2}}
        \cup {[Shapes[1] EXCEPT !.Path = "/etc/hosts"]}

\* the lists of at most MaxLen such entries
EntryLists == UNION {[1..n -> ListEntries] : n \in 0..MaxLen}

-----------------------------------------------------------------------------
(* Paths *)

\* the position of the last "/" of s at or before position i (0 if none)
RECURSIVE LastSlash(_, _)
LastSlash(s, i) ==
    IF i = 0 THEN 0
    ELSE IF SubSeq(s, i, i) = "/" THEN i
    ELSE LastSlash(s, i - 1)

\* the directory whose listing holds the clean absolute path p: the inverse
\* of filename := Join(path, name) in filepath.Walk
ParentOf(p) ==
    LET i == LastSlash(p, Len(p))
    IN  IF i <= 1 THEN "/" ELSE SubSeq(p, 1, i - 1)

\* filepath.Join(dir, name) for a clean dir and a name without "/"
JoinName(dir, name) == IF dir = "/" THEN "/" \o name ELSE dir \o "/" \o name

\* strings.Split(s, "/")
RECURSIVE SplitFrom(_, _, _)
SplitFrom(s, i, cur) ==
    IF i > Len(s) THEN <<cur>>
    ELSE IF SubSeq(s, i, i) = "/" THEN <<cur>> \o SplitFrom(s, i + 1, "")
    ELSE SplitFrom(s, i + 1, cur \o SubSeq(s, i, i))

Split(s) == SplitFrom(s, 1, "")

\* strings.TrimPrefix(s, prefix)
TrimPrefix(s, prefix) ==
    IF HasPrefix(s, prefix) THEN SubSeq(s, Len(prefix) + 1, Len(s)) ELSE s

\* strings.Join(elems, "/")
RECURSIVE JoinSlash(_)
JoinSlash(elems) ==
    IF elems = <<>> THEN ""
    ELSE IF Len(elems) = 1 THEN elems[1]
    ELSE elems[1] \o "/" \o JoinSlash(Tail(elems))

\* the elements filepath.Clean keeps of the elements still to read, given
\* those kept so far: "" and "." are dropped, ".." removes the element before
\* it, is dropped at the root, and is kept at the start of a relative path
RECURSIVE cleanElems(_, _, _)
cleanElems(elems, kept, rooted) ==
    IF elems = <<>> THEN kept
    ELSE LET e == Head(elems)
         IN  IF e = "" \/ e = "." THEN cleanElems(Tail(elems), kept, rooted)
             ELSE IF e = ".."
                 THEN IF kept # <<>> /\ kept[Len(kept)] # ".."
                          THEN cleanElems(Tail(elems), SubSeq(kept, 1, Len(kept) - 1), rooted)
                      ELSE IF rooted THEN cleanElems(Tail(elems), kept, rooted)
                      ELSE cleanElems(Tail(elems), Append(kept, e), rooted)
             ELSE cleanElems(Tail(elems), Append(kept, e), rooted)

\* filepath.Clean(path)
Clean(path) ==
    LET rooted == HasPrefix(path, "/")
        kept == cleanElems(Split(path), <<>>, rooted)
    IN  IF path = "" THEN "."
        ELSE IF rooted THEN "/" \o JoinSlash(kept)
        ELSE IF kept = <<>> THEN "."
        ELSE JoinSlash(kept)

\* filepath.Join(elem...): the empty elements are ignored, the rest joined
\* and cleaned; "" when there is none
Join(elems) ==
    LET nonEmpty == SelectSeq(elems, LAMBDA e : e # "")
    IN  IF nonEmpty = <<>> THEN "" ELSE Clean(JoinSlash(nonEmpty))

\* getDestPath with > for >=: stripping every component is not skipped
getDestPathStrict(path, n) ==
    LET parts == Split(TrimPrefix(path, "/"))
    IN  IF n > Len(parts) THEN ""
        ELSE "/" \o Join(SubSeq(parts, n + 1, Len(parts)))

getDestPath(path, n) ==
    LET parts == Split(TrimPrefix(path, "/"))
    IN  IF n >= Len(parts) THEN ""
        ELSE "/" \o Join(SubSeq(parts, n + 1, Len(parts)))

-----------------------------------------------------------------------------
(* The container's filesystem *)

\* what Lstat reports of the nodes an image may hold: kind, size (a directory
\* reports the size of its own node), mode string, modification time in
\* seconds, numeric owner, and for a symlink its raw target; `digest` is the
\* MD5 of the bytes of a regular file
Image ==
    {[path |-> "/", kind |-> "dir", size |-> 4096, mode |-> "drwxr-xr-x",
      mtime |-> 1, uid |-> 0, gid |-> 0, target |-> "", digest |-> ""],
     [path |-> "/dev", kind |-> "dir", size |-> 4096, mode |-> "drwxr-xr-x",
      mtime |-> 1, uid |-> 0, gid |-> 0, target |-> "", digest |-> ""],
     [path |-> "/etc", kind |-> "dir", size |-> 4096, mode |-> "drwxr-xr-x",
      mtime |-> 1, uid |-> 0, gid |-> 0, target |-> "", digest |-> ""],
     [path |-> "/etc/empty", kind |-> "file", size |-> 0, mode |-> "-rw-r--r--",
      mtime |-> 0, uid |-> 0, gid |-> 0, target |-> "",
      digest |-> "d41d8cd98f00b204e9800998ecf8427e"],
     [path |-> "/etc/link", kind |-> "symlink", size |-> 16, mode |-> "Lrwxrwxrwx",
      mtime |-> 1, uid |-> 0, gid |-> 0, target |-> "nginx/nginx.conf", digest |-> ""],
     [path |-> "/etc/nginx", kind |-> "dir", size |-> 4096, mode |-> "drwxr-xr-x",
      mtime |-> 1, uid |-> 0, gid |-> 0, target |-> "", digest |-> ""],
     [path |-> "/etc/nginx/nginx.conf", kind |-> "file", size |-> 10,
      mode |-> "-rw-r--r--", mtime |-> 2, uid |-> 101, gid |-> 101, target |-> "",
      digest |-> "0cc175b9c0f1b6a831c399e269772661"],
     [path |-> "/etc.bak", kind |-> "file", size |-> 20, mode |-> "-rw-rw-r--",
      mtime |-> 1, uid |-> 0, gid |-> 0, target |-> "",
      digest |-> "92eb5ffee6ae2fec3ad71c777531578f"],
     [path |-> "/inspect", kind |-> "file", size |-> 30, mode |-> "-rwxr-xr-x",
      mtime |-> 1, uid |-> 0, gid |-> 0, target |-> "",
      digest |-> "4a8a08f09d37b73795649038408b5f33"],
     [path |-> "/inspect-target", kind |-> "dir", size |-> 4096, mode |-> "drwxr-xr-x",
      mtime |-> 1, uid |-> 0, gid |-> 0, target |-> "", digest |-> ""],
     [path |-> "/inspect-target/out", kind |-> "file", size |-> 10,
      mode |-> "-rw-r--r--", mtime |-> 1, uid |-> 0, gid |-> 0, target |-> "",
      digest |-> "8277e0910d750195b448797616e091ad"],
     [path |-> "/proc", kind |-> "dir", size |-> 0, mode |-> "dr-xr-xr-x",
      mtime |-> 1, uid |-> 0, gid |-> 0, target |-> "", digest |-> ""],
     [path |-> "/proc/version", kind |-> "file", size |-> 0, mode |-> "-r--r--r--",
      mtime |-> 1, uid |-> 0, gid |-> 0, target |-> "",
      digest |-> "e1671797c52e15f763380b45e841ec32"],
     [path |-> "/sys", kind |-> "dir", size |-> 0, mode |-> "dr-xr-xr-x",
      mtime |-> 1, uid |-> 0, gid |-> 0, target |-> "", digest |-> ""]}

ImagePaths == {n.path : n \in Image}

\* nodes that only the images of some scenarios hold: a second file named
\* empty, in another directory, and a symlink to the directory that holds it
ScenarioNodes ==
    {[path |-> "/etc/loop", kind |-> "symlink", size |-> 4, mode |-> "Lrwxrwxrwx",
      mtime |-> 1, uid |-> 0, gid |-> 0, target |-> "/etc", digest |-> ""],
     [path |-> "/opt", kind |-> "dir", size |-> 4096, mode |-> "drwxr-xr-x",
      mtime |-> 1, uid |-> 0, gid |-> 0, target |-> "", digest |-> ""],
     [path |-> "/opt/empty", kind |-> "file", size |-> 5, mode |-> "-rw-r--r--",
      mtime |-> 1, uid |-> 0, gid |-> 0, target |-> "",
      digest |-> "8fa14cdd754f91cc6554c9e71929cce7"]}

\* the fs.FileInfo Lstat returns for a path of an image
NodeAt(p) == CHOOSE n \in Image \cup ScenarioNodes : n.path = p

\* the filesystems walked: / and at most MaxNodes nodes below it, each with
\* its parent directory
Trees ==
    {T \cup {"/"} : T \in {T \in SUBSET (ImagePaths \ {"/"}) :
                            /\ Cardinality(T) <= MaxNodes
                            /\ \A p \in T : ParentOf(p) = "/" \/ ParentOf(p) \in T}}

\* the filesystems over a set of paths: / and at most MaxNodes of them, each
\* with its parent directory
TreesOver(paths) ==
    {T \cup {"/"} : T \in {T \in SUBSET (paths \ {"/"}) :
                            /\ Cardinality(T) <= MaxNodes
                            /\ \A p \in T : ParentOf(p) = "/" \/ ParentOf(p) \in T}}

\* readDirNames: the entries of a directory, sorted by name
Children(t, dir) == SortedSeq({p \in t : p # "/" /\ ParentOf(p) = dir})

-----------------------------------------------------------------------------
(* The inspector *)

\* the three main functions of the in-container inspector in the repository
Legacy == "cmd/internal-inspector/main.go"
Part001 == "unnamed/part_001"
Readme == "README.md"

Inspectors == {Legacy, Part001, Readme}

\* the values of --path and of --glob the model runs the inspector with
Roots == {"/", "/etc", "/proc", "/proc/version"}
Patterns == {"", "/etc/**", "["}

SkipDir == "SkipDir"
InvalidPattern == "invalid pattern"
Panic == "panic"

\* a "[" that is never closed makes doublestar.Match return ErrBadPattern
RECURSIVE Unclosed(_, _)
Unclosed(pattern, open) ==
    IF pattern = "" THEN open
    ELSE IF Head(pattern) = "[" THEN Unclosed(Tail(pattern), TRUE)
    ELSE IF Head(pattern) = "]" THEN Unclosed(Tail(pattern), FALSE)
    ELSE Unclosed(Tail(pattern), open)

\* one path segment against one pattern segment: "*" matches any run of
\* characters of the segment, any other character itself
RECURSIVE SegMatch(_, _)
SegMatch(pseg, seg) ==
    IF pseg = "" THEN seg = ""
    ELSE IF Head(pseg) = "*"
        THEN SegMatch(Tail(pseg), seg) \/ (seg # "" /\ SegMatch(pseg, Tail(seg)))
    ELSE seg # "" /\ Head(pseg) = Head(seg) /\ SegMatch(Tail(pseg), Tail(seg))

\* the segments of a path against those of a pattern: a segment "**" matches
\* any number of path segments
RECURSIVE SegsMatch(_, _)
SegsMatch(ps, ss) ==
    IF ps = <<>> THEN ss = <<>>
    ELSE IF Head(ps) = "**"
        THEN SegsMatch(Tail(ps), ss) \/ (ss # <<>> /\ SegsMatch(ps, Tail(ss)))
    ELSE ss # <<>> /\ SegMatch(Head(ps), Head(ss)) /\ SegsMatch(Tail(ps), Tail(ss))

\* doublestar.Match(pattern, path): "error", "match" or "nomatch"
Match(pattern, path) ==
    IF Unclosed(pattern, FALSE) THEN "error"
    ELSE IF SegsMatch(Split(pattern), Split(path)) THEN "match"
    ELSE "nomatch"

\* calculateMD5(path): os.Open follows a symlink; the digest of the bytes
\* read, the error of os.Open, or the error of reading a directory
calculateMD5(t, path) ==
    LET info == NodeAt(path)
        opened == IF info.kind # "symlink" THEN path
                  ELSE IF HasPrefix(info.target, "/") THEN info.target
                  ELSE JoinName(ParentOf(path), info.target)
    IN  IF opened \notin t
            THEN [err |-> "open " \o path \o ": no such file or directory", sum |-> ""]
        ELSE IF NodeAt(opened).kind = "dir"
            THEN [err |-> "read " \o path \o ": is a directory", sum |-> ""]
        ELSE [err |-> "", sum |-> NodeAt(opened).digest]

\* the display string of a numeric id in getUserGroupNames: the name and the
\* id when the id resolves (root), the id alone otherwise
IdName(id) == IF id = 0 THEN "root(0)" ELSE "(" \o ToString(id) \o ")"

\* the FileInfo built with a time that is left out when it is zero, as a
\* time value under omitempty would be
newFileInfoOmitZero(a, path, info, user, group) ==
    [Path |-> path,
     Size |-> info.size,
     Mode |-> info.mode,
     ModTime |-> IF a.NoTimes \/ info.mtime = 0 THEN NilTime ELSE <<info.mtime>>,
     IsDir |-> info.kind = "dir",
     SymlinkTo |-> IF info.kind = "symlink" THEN info.target ELSE "",
     User |-> user,
     Group |-> group,
     MD5 |-> ""]

\* the FileInfo the walk callback builds, before the MD5 branch
newFileInfo(a, path, info, user, group) ==
    [Path |-> path,
     Size |-> info.size,
     Mode |-> info.mode,
     ModTime |-> IF a.NoTimes THEN NilTime ELSE <<info.mtime>>,
     IsDir |-> info.kind = "dir",
     SymlinkTo |-> IF info.kind = "symlink" THEN info.target ELSE "",
     User |-> user,
     Group |-> group,
     MD5 |-> ""]

\* the MD5 branch of README.md and part_001: a non-empty regular file
md5Gated(a, t, fi) ==
    IF a.MD5 /\ ~fi.IsDir /\ fi.Size > 0 /\ fi.SymlinkTo = ""
        THEN LET h == calculateMD5(t, fi.Path)
             IN  [fi EXCEPT !.MD5 = IF h.err = "" THEN h.sum ELSE "error: " \o h.err]
        ELSE fi

\* the MD5 branch of cmd/internal-inspector/main.go: anything but a directory,
\* the error recorded only with --json
md5NotDir(a, t, fi) ==
    IF a.MD5 /\ ~fi.IsDir
        THEN LET h == calculateMD5(t, fi.Path)
             IN  [fi EXCEPT !.MD5 = IF h.err = "" THEN h.sum
                                    ELSE IF a.JSON THEN "error: " \o h.err
                                    ELSE ""]
        ELSE fi

\* the pattern matching and the rest of the callback, common to the three
\* inspectors: the value returned and the entries appended to files
matchAndAppend(a, path, fi) ==
    LET m == IF a.Pattern # "" THEN Match(a.Pattern, path) ELSE "match"
    IN  IF m = "error" THEN [ret |-> InvalidPattern, out |-> <<>>]
        ELSE IF m = "nomatch" THEN [ret |-> "", out |-> <<>>]
        ELSE [ret |-> "", out |-> <<fi>>]

\* the callback of cmd/internal-inspector/main.go; exists is FALSE when
\* Lstat failed (info is nil and err is not)
walkFnLegacy(a, t, path, exists) ==
    IF ~exists
        THEN [ret |-> SkipDir, out |-> <<>>]
        ELSE matchAndAppend(a, path,
                 md5NotDir(a, t, newFileInfo(a, path, NodeAt(path), "root", "root")))

\* the callback of unnamed/part_001
walkFnPart001(a, t, path, exists) ==
    IF HasPrefix(path, "/proc") \/ HasPrefix(path, "/sys") \/ HasPrefix(path, "/dev")
        THEN [ret |-> SkipDir, out |-> <<>>]
    ELSE IF ~exists
        THEN [ret |-> Panic, out |-> <<>>]
    ELSE matchAndAppend(a, path,
             md5Gated(a, t, newFileInfo(a, path, NodeAt(path), "root", "root")))

\* the callback of README.md
walkFnReadme(a, t, path, exists) ==
    IF ~exists
        THEN [ret |-> Panic, out |-> <<>>]
    ELSE IF path = "/inspect-target" \/ path = "/proc" \/ path = "/sys" \/ path = "/dev"
        THEN [ret |-> SkipDir, out |-> <<>>]
    ELSE IF path = "/inspect"
        THEN [ret |-> "", out |-> <<>>]
    ELSE matchAndAppend(a, path,
             md5Gated(a, t, newFileInfo(a, path, NodeAt(path),
                                        IdName(NodeAt(path).uid),
                                        IdName(NodeAt(path).gid))))

\* the entries of a todo list that follow its leading run of depth d
RECURSIVE DropDepth(_, _)
DropDepth(list, d) ==
    IF list # <<>> /\ Head(list).depth = d THEN DropDepth(Tail(list), d) ELSE list

\* a walk that follows symlinks: a symlink to a directory is descended into
\* as the directory it points to
walkNextFollowing(t, list, exists, ret) ==
    LET n == Head(list)
        rest == Tail(list)
        dir == IF NodeAt(n.path).kind = "symlink" THEN NodeAt(n.path).target
               ELSE n.path
    IN  IF ret \notin {"", SkipDir} THEN <<>>
        ELSE IF ~exists THEN rest
        ELSE IF dir \in t /\ NodeAt(dir).kind = "dir"
            THEN IF ret = ""
                     THEN [i \in DOMAIN Children(t, dir) |->
                              [path |-> Children(t, dir)[i], depth |-> n.depth + 1]]
                          \o rest
                     ELSE rest
        ELSE IF ret = SkipDir
            THEN IF rest # <<>> /\ Head(rest).depth = n.depth THEN Tail(rest) ELSE rest
        ELSE rest

\* filepath.Walk after one call of the callback on the head of todo: a
\* directory whose callback returned nil is descended into; SkipDir skips a
\* directory, or the rest of the directory that holds a file; an Lstat
\* failure is passed to the callback and only a real error ends the walk
walkNext(t, list, exists, ret) ==
    LET n == Head(list)
        rest == Tail(list)
    IN  IF ret \notin {"", SkipDir} THEN <<>>
        ELSE IF ~exists THEN rest
        ELSE IF NodeAt(n.path).kind = "dir"
            THEN IF ret = ""
                     THEN [i \in DOMAIN Children(t, n.path) |->
                              [path |-> Children(t, n.path)[i], depth |-> n.depth + 1]]
                          \o rest
                     ELSE rest
        ELSE IF ret = SkipDir THEN DropDepth(rest, n.depth)
        ELSE rest

\* sort.Slice(files, func(i, j) { return files[i].Path < files[j].Path })
RECURSIVE insertByPath(_, _)
insertByPath(f, sorted) ==
    IF sorted = <<>> THEN <<f>>
    ELSE IF StrLess(f.Path, Head(sorted).Path) THEN <<f>> \o sorted
    ELSE <<Head(sorted)>> \o insertByPath(f, Tail(sorted))

\* files left in the order of the walk
unsorted(fs) == fs

RECURSIVE sortByPath(_)
sortByPath(fs) ==
    IF fs = <<>> THEN <<>>
    ELSE insertByPath(Head(fs), sortByPath(Tail(fs)))

-----------------------------------------------------------------------------
(* The extraction *)

\* the directory docker-inspector mounts the output directory at
TargetDir == "/inspect-target"

\* a directory as os.MkdirAll(dir, 0755) makes it
DirNode ==
    [kind |-> "dir", mode |-> "drwxr-xr-x", uid |-> 0, gid |-> 0, target |-> "",
     digest |-> ""]

\* the target filesystem before the extraction: the mounted directory alone
EmptyTarget == [q \in {TargetDir} |-> DirNode]

\* a filesystem with the node at path q set
WithNode(fs, q, node) ==
    [r \in DOMAIN fs \cup {q} |-> IF r = q THEN node ELSE fs[r]]

\* the directories above a clean absolute path
RECURSIVE AncestorsOf(_)
AncestorsOf(q) ==
    IF q = "/" THEN {} ELSE {ParentOf(q)} \cup AncestorsOf(ParentOf(q))

\* os.MkdirAll(dir, 0755): fails on a path element that is not a directory,
\* else makes the directories that are missing
MkdirAll(fs, dir) ==
    LET chain == (AncestorsOf(dir) \cup {dir}) \ {"/"}
    IN  IF \E q \in chain : q \in DOMAIN fs /\ fs[q].kind # "dir"
            THEN [err |-> TRUE, fs |-> fs]
            ELSE [err |-> FALSE,
                  fs |-> [q \in DOMAIN fs \cup chain |->
                             IF q \in DOMAIN fs THEN fs[q] ELSE DirNode]]

\* the mode of a file created with the permission bits of mode under the
\* umask 022: not writable by group and others
CreatedMode(perm) ==
    SubSeq(perm, 1, 5) \o "-" \o SubSeq(perm, 7, 8) \o "-" \o SubSeq(perm, 10, 10)

\* the result of copyFile: its error ("" is nil), the target filesystem, the
\* warnings it printed and the calls it made on the target
CopyResult(err, fs, warnings, made) ==
    [err |-> err, fs |-> fs, warnings |-> warnings, calls |-> made]

\* chmod and chown of the destination as the flags ask, each failure a
\* warning, and the final Lstat with its warning; node is the destination
\* file with its bytes copied
setAttributes(fs, dest, info, node, preservePerms, preserveUser, bad, made) ==
    LET chmodded == preservePerms /\ "Chmod" \notin bad
        chowned == preserveUser /\ "Chown" \notin bad
        final == [node EXCEPT !.mode = IF chmodded THEN info.mode ELSE @,
                              !.uid = IF chowned THEN info.uid ELSE @,
                              !.gid = IF chowned THEN info.gid ELSE @]
    IN  CopyResult("",
            WithNode(fs, dest, final),
            (IF preservePerms /\ "Chmod" \in bad
                 THEN <<"Warning: Could not preserve mode of " \o dest>> ELSE <<>>)
            \o (IF preserveUser /\ "Chown" \in bad
                    THEN <<"Warning: Could not preserve ownership of " \o dest>>
                    ELSE <<>>)
            \o (IF final.uid # info.uid \/ final.gid # info.gid
                    THEN <<"Warning: Final ownership is not as expected">> ELSE <<>>),
            made
            \o (IF preservePerms THEN <<<<"Chmod", dest>>>> ELSE <<>>)
            \o (IF preserveUser THEN <<<<"Chown", dest>>>> ELSE <<>>)
            \o <<<<"Lstat", dest>>>>)

\* the end of copyFile with a failed chmod or chown returned as its error
copyFileAttributesStrict(fs, dest, info, node, preservePerms, preserveUser, bad, made) ==
    IF (preservePerms /\ "Chmod" \in bad) \/ (preserveUser /\ "Chown" \in bad)
        THEN CopyResult("failed to preserve attributes", WithNode(fs, dest, node),
                        <<>>, made)
        ELSE setAttributes(fs, dest, info, node, preservePerms, preserveUser, bad, made)

\* the end of copyFile on a regular file, from `if preservePerms` on; it
\* returns nil
copyFileAttributes(fs, dest, info, node, preservePerms, preserveUser, bad, made) ==
    setAttributes(fs, dest, info, node, preservePerms, preserveUser, bad, made)

\* copyFile on a symlink with the link followed: the bytes of the file it
\* points to are copied
copySymlinkFollowed(fs, dest, info, bad, made) ==
    CopyResult("",
        WithNode(fs, dest, [kind |-> "file", mode |-> "-rw-r--r--", uid |-> 0,
                            gid |-> 0, target |-> "", digest |-> "bytes of the target"]),
        <<>>, made \o <<<<"OpenFile", dest>>, <<"Write", dest>>>>)

\* the symlink branch of copyFile: os.Readlink(src) and os.Symlink(target,
\* dest), which fails when dest exists
copySymlink(fs, dest, info, bad, made) ==
    IF "Readlink" \in bad
        THEN CopyResult("failed to read symlink", fs, <<>>, made)
    ELSE IF "Symlink" \in bad \/ dest \in DOMAIN fs
        THEN CopyResult("symlink " \o dest \o ": file exists", fs, <<>>,
                        made \o <<<<"Symlink", dest>>>>)
    ELSE CopyResult("",
             WithNode(fs, dest, [kind |-> "symlink", mode |-> "Lrwxrwxrwx", uid |-> 0,
                                 gid |-> 0, target |-> info.target, digest |-> ""]),
             <<>>, made \o <<<<"Symlink", dest>>>>)

\* the regular-file branch of copyFile: os.Open(src), os.OpenFile(dest,
\* O_WRONLY|O_CREATE|O_TRUNC, info.Mode()), io.Copy, then the attributes; an
\* existing file is truncated and keeps its mode and owner
copyRegular(fs, dest, info, preservePerms, preserveUser, bad, made) ==
    IF "Open" \in bad
        THEN CopyResult("failed to open source file", fs, <<>>, made)
    ELSE IF "OpenFile" \in bad \/ (dest \in DOMAIN fs /\ fs[dest].kind # "file")
        THEN CopyResult("failed to create destination file", fs, <<>>,
                        made \o <<<<"OpenFile", dest>>>>)
    ELSE LET opened == IF dest \in DOMAIN fs
                           THEN [fs[dest] EXCEPT !.digest = "truncated"]
                           ELSE [kind |-> "file", mode |-> CreatedMode(info.mode),
                                 uid |-> 0, gid |-> 0, target |-> "",
                                 digest |-> "truncated"]
             made2 == made \o <<<<"OpenFile", dest>>, <<"Write", dest>>>>
         IN  IF "Copy" \in bad
                 THEN CopyResult("failed to copy file contents",
                                 WithNode(fs, dest, opened), <<>>, made2)
                 ELSE copyFileAttributes(fs, dest, info,
                                         [opened EXCEPT !.digest = info.digest],
                                         preservePerms, preserveUser, bad, made2)

\* copyFile(src, dest, info, preservePerms, preserveUser); bad is the set of
\* its calls that fail in this run
copyFile(fs, dest, info, preservePerms, preserveUser, bad) ==
    LET destDir == ParentOf(dest)
        dirs == MkdirAll(fs, destDir)
        made == <<<<"MkdirAll", destDir>>>>
    IN  IF "MkdirAll" \in bad \/ dirs.err
            THEN CopyResult("failed to create destination directory", fs, <<>>, made)
        ELSE IF info.kind = "symlink"
            THEN copySymlink(dirs.fs, dest, info, bad, made)
        ELSE copyRegular(dirs.fs, dest, info, preservePerms, preserveUser, bad, made)

\* one iteration of the extraction loop with the directories extracted too
extractEntryWithDirs(fs, file, a, bad) ==
    LET destRel == getDestPath(file.Path, a.StripComponents)
        destFull == Join(<<a.OutputDir, destRel>>)
        passed == [fs |-> fs, warnings |-> <<>>, calls |-> <<>>, fatal |-> FALSE]
    IN  IF destRel = "" THEN passed
        ELSE IF file.IsDir
            THEN [passed EXCEPT !.fs = MkdirAll(fs, destFull).fs,
                                !.calls = <<<<"MkdirAll", destFull>>>>]
        ELSE IF "Stat" \in bad
            THEN [passed EXCEPT !.warnings = <<"Warning: Cannot stat " \o file.Path>>]
        ELSE LET r == copyFile(fs, destFull, NodeAt(file.Path),
                               a.PreservePermissions, a.PreserveOwner, bad)
             IN  [fs |-> r.fs,
                  warnings |-> r.warnings
                      \o (IF r.err # ""
                              THEN <<"Warning: Failed to copy " \o file.Path
                                       \o ": " \o r.err>>
                              ELSE <<>>),
                  calls |-> r.calls,
                  fatal |-> FALSE]

\* one iteration of the extraction loop with a failed entry ending the run
extractEntryFatal(fs, file, a, bad) ==
    LET destRel == getDestPath(file.Path, a.StripComponents)
        destFull == Join(<<a.OutputDir, destRel>>)
        passed == [fs |-> fs, warnings |-> <<>>, calls |-> <<>>, fatal |-> FALSE]
    IN  IF file.IsDir \/ destRel = "" THEN passed
        ELSE IF "Stat" \in bad
            THEN [passed EXCEPT !.warnings = <<"Warning: Cannot stat " \o file.Path>>,
                                !.fatal = TRUE]
        ELSE LET r == copyFile(fs, destFull, NodeAt(file.Path),
                               a.PreservePermissions, a.PreserveOwner, bad)
             IN  [fs |-> r.fs,
                  warnings |-> r.warnings
                      \o (IF r.err # ""
                              THEN <<"Warning: Failed to copy " \o file.Path
                                       \o ": " \o r.err>>
                              ELSE <<>>),
                  calls |-> r.calls,
                  fatal |-> r.err # ""]

\* one iteration of the extraction loop: a directory and an entry with every
\* component stripped are passed over; a failed os.Lstat or copyFile is a
\* warning and the loop continues (fatal is never set)
extractEntry(fs, file, a, bad) ==
    LET destRel == getDestPath(file.Path, a.StripComponents)
        destFull == Join(<<a.OutputDir, destRel>>)
        passed == [fs |-> fs, warnings |-> <<>>, calls |-> <<>>, fatal |-> FALSE]
    IN  IF file.IsDir \/ destRel = "" THEN passed
        ELSE IF "Stat" \in bad
            THEN [passed EXCEPT !.warnings = <<"Warning: Cannot stat " \o file.Path>>]
        ELSE LET r == copyFile(fs, destFull, NodeAt(file.Path),
                               a.PreservePermissions, a.PreserveOwner, bad)
             IN  [fs |-> r.fs,
                  warnings |-> r.warnings
                      \o (IF r.err # ""
                              THEN <<"Warning: Failed to copy " \o file.Path
                                       \o ": " \o r.err>>
                              ELSE <<>>),
                  calls |-> r.calls,
                  fatal |-> FALSE]

\* the calls that fail on the entry at a path in a run
BadAt(b, path) == {f[2] : f \in {g \in b : g[1] = path}}

-----------------------------------------------------------------------------
(* The extraction loop's inputs *)

\* file.Path of the entries the loop sees: the paths of the image, and a root
\* given with a doubled separator, which filepath.Walk passes on as it is
SourcePaths == (ImagePaths \ {"/"}) \cup {"/etc//hosts"}

\* the values of --output-dir: what docker-inspector passes, and relative ones
OutputDirs == {"/inspect-target", "./out", "out/sub/"}

\* the paths of the images files are extracted from
ExtractPaths ==
    {"/", "/etc", "/etc/empty", "/etc/link", "/etc/nginx", "/etc/nginx/nginx.conf",
     "/etc.bak", "/proc"}

ExtractTrees == {t \in Trees : t \subseteq ExtractPaths}

\* the arguments of the inspector of README.md: without --output-dir the
\* flags of the extraction have no effect and keep their defaults
ExtractArgs ==
    {a \in [Path : {"/", "/proc"}, Pattern : {"", "["}, MD5 : {FALSE},
            NoTimes : {FALSE}, JSON : {TRUE}, OutputDir : {"", TargetDir},
            StripComponents : 0..MaxStrip, PreservePermissions : BOOLEAN,
            PreserveOwner : BOOLEAN] :
        a.OutputDir = "" =>
            (a.StripComponents = 0 /\ ~a.PreservePermissions /\ ~a.PreserveOwner)}

\* the calls of the extraction of one entry that can fail
ExtractCalls(kind) ==
    IF kind = "symlink" THEN {"Stat", "MkdirAll", "Readlink", "Symlink"}
    ELSE {"Stat", "MkdirAll", "Open", "OpenFile", "Copy", "Chmod", "Chown"}

\* the subsets of S of at most k elements
RECURSIVE SetsUpTo(_, _)
SetsUpTo(S, k) ==
    IF k = 0 THEN {{}}
    ELSE LET smaller == SetsUpTo(S, k - 1)
         IN  smaller \cup {x \cup {f} : x \in smaller, f \in S}

\* the sets of calls that may fail on one entry when b holds the calls that
\* failed before: at most MaxFaults calls fail in a run
EntryFaults(b, kind) == SetsUpTo(ExtractCalls(kind), MaxFaults - Cardinality(b))

-----------------------------------------------------------------------------
(* Errors during the walk *)

\* no call failed on the node
NoFault == [call |-> "", errno |-> ""]

\* the errors os.Lstat and readDirNames fail with: os.IsNotExist holds of
\* ENOENT, os.IsPermission of EACCES, neither of EIO
Errnos == {"ENOENT", "EACCES", "EIO"}

\* the calls filepath.Walk makes on a node before it calls the callback, each
\* with an error it may return: os.Lstat on any node, readDirNames on a
\* directory
FaultsOf(kind) ==
    {[call |-> "Lstat", errno |-> e] : e \in Errnos}
        \cup IF kind = "dir" THEN {[call |-> "ReadDir", errno |-> e] : e \in Errnos}
             ELSE {}

\* what may happen to the node at path when b holds the calls that failed
\* before: os.Lstat of a path that is not in the tree fails with ENOENT; at
\* most MaxFaults calls fail on nodes of the tree
NodeFaults(t, path, b) ==
    IF path \notin t THEN {[call |-> "Lstat", errno |-> "ENOENT"]}
    ELSE {NoFault} \cup IF Cardinality(b) >= MaxFaults THEN {}
                        ELSE FaultsOf(NodeAt(path).kind)

\* the %v of the error
ErrorText(path, f) ==
    (IF f.call = "Lstat" THEN "lstat " ELSE "open ") \o path \o ": "
        \o (IF f.errno = "ENOENT" THEN "no such file or directory"
            ELSE IF f.errno = "EACCES" THEN "permission denied"
            ELSE "input/output error")

CannotAccess(path, f) == "Warning: Cannot access " \o path \o ": " \o ErrorText(path, f)

\* the callback of cmd/internal-inspector/main.go called with err != nil
errorBranchLegacy(path, f) ==
    IF f.errno = "ENOENT"
       \/ HasPrefix(path, "/proc") \/ HasPrefix(path, "/sys") \/ HasPrefix(path, "/dev")
        THEN [ret |-> SkipDir, out |-> <<>>, warnings |-> <<>>]
        ELSE [ret |-> "", out |-> <<>>, warnings |-> <<CannotAccess(path, f)>>]

\* the callback of README.md called with err != nil: info is nil when
\* os.Lstat failed, and info.IsDir() then dereferences a nil pointer; it is
\* the directory's when readDirNames failed
errorBranchReadme(path, f) ==
    [ret |-> IF f.call = "Lstat" THEN Panic ELSE SkipDir,
     out |-> <<>>,
     warnings |-> <<CannotAccess(path, f)>>]

\* the callback of unnamed/part_001 called with err != nil: the prefixes are
\* tested first
errorBranchPart001(path, f) ==
    IF HasPrefix(path, "/proc") \/ HasPrefix(path, "/sys") \/ HasPrefix(path, "/dev")
        THEN [ret |-> SkipDir, out |-> <<>>, warnings |-> <<>>]
        ELSE errorBranchReadme(path, f)

\* the callback of an inspector on a node with the outcome f of the calls
\* filepath.Walk made on it
walkFnOn(i, a, t, path, f) ==
    IF f # NoFault
        THEN IF i = Legacy THEN errorBranchLegacy(path, f)
             ELSE IF i = Part001 THEN errorBranchPart001(path, f)
             ELSE errorBranchReadme(path, f)
        ELSE LET r == IF i = Legacy THEN walkFnLegacy(a, t, path, TRUE)
                      ELSE IF i = Part001 THEN walkFnPart001(a, t, path, TRUE)
                      ELSE walkFnReadme(a, t, path, TRUE)
             IN  [ret |-> r.ret, out |-> r.out, warnings |-> <<>>]

\* filepath.Walk after the callback on the head of todo: a node whose
\* os.Lstat or readDirNames failed is not descended into, and the walk goes
\* on with the next node unless the callback returned a real error
walkNextOn(t, list, f, ret) ==
    IF f = NoFault THEN walkNext(t, list, TRUE, ret)
    ELSE IF ret \notin {"", SkipDir} THEN <<>>
    ELSE Tail(list)

\* the trees walked with failing calls hold none of the excluded paths
FaultPaths ==
    {"/", "/etc", "/etc/empty", "/etc/nginx", "/etc/nginx/nginx.conf", "/etc.bak"}

FaultTrees == {t \in Trees : t \subseteq FaultPaths}

-----------------------------------------------------------------------------
(* docker-inspector *)

\* files1JSON/files2JSON before runInspector is called
NotRun == [err |-> "not run", output |-> <<>>]

\* the snapshots an inspector sends to docker-inspector: those made of the
\* first four shapes
WireSnapshots ==
    {sn \in Snapshots :
        \A i \in DOMAIN sn : [sn[i] EXCEPT !.Path = ""] \in {Shapes[j] : j \in 1..4}}

\* what runInspector returns: the error of cmd.Output() (docker missing, the
\* inspector exiting with a status other than 0), or the bytes the inspector
\* wrote: nothing, a table, or a JSON snapshot
RunOutcomes ==
    {[err |-> "exit status 1", output |-> <<>>],
     [err |-> "", output |-> <<>>],
     [err |-> "", output |-> <<[format |-> "table", files |-> <<>>]>>]}
    \cup {[err |-> "", output |-> <<[format |-> "json", files |-> sn]>>] :
            sn \in WireSnapshots}

\* json.Unmarshal taking whatever it is given for an empty snapshot
UnmarshalLenient(output) ==
    [err |-> "",
     files |-> IF output # <<>> /\ output[1].format = "json" THEN output[1].files
               ELSE <<>>]

\* json.Unmarshal(output, &files)
Unmarshal(output) ==
    IF output # <<>> /\ output[1].format = "json"
        THEN [err |-> "", files |-> output[1].files]
        ELSE [err |-> "invalid character", files |-> <<>>]

\* strings.LastIndex(s, c) for a one-character c, counted from 1; 0 is -1
RECURSIVE LastIndexFrom(_, _, _)
LastIndexFrom(c, s, i) ==
    IF i = 0 THEN 0
    ELSE IF SubSeq(s, i, i) = c THEN i
    ELSE LastIndexFrom(c, s, i - 1)

\* the numeric ids of the owners in the image
ImageIds == {n.uid : n \in Image} \cup {n.gid : n \in Image}

\* strconv.Atoi, over the strings extractID can cut out of the user and group
\* of an entry: the decimal form of an id of the image, or something else
Atoi(str) ==
    IF \E n \in ImageIds : ToString(n) = str
        THEN [err |-> "", id |-> CHOOSE n \in ImageIds : ToString(n) = str]
        ELSE [err |-> "invalid ID", id |-> 0]

\* extractID(s): the number between the last "(" and the last ")"
extractID(str) ==
    LET openIdx == LastIndexFrom("(", str, Len(str))
        closeIdx == LastIndexFrom(")", str, Len(str))
    IN  IF openIdx = 0 \/ closeIdx = 0 \/ openIdx >= closeIdx
            THEN [err |-> "no ID found", id |-> 0]
            ELSE Atoi(SubSeq(str, openIdx + 1, closeIdx - 1))

\* the loop of fixOwnershipWithSudo: one `chown -h uid:gid path` for every
\* entry that keeps a component and whose user and group carry an id
RECURSIVE chownCommands(_, _, _)
chownCommands(fs, outDir, strip) ==
    IF fs = <<>> THEN <<>>
    ELSE LET file == Head(fs)
             destRel == getDestPath(file.Path, strip)
             uid == extractID(file.User)
             gid == extractID(file.Group)
         IN  (IF destRel = "" \/ uid.err # "" \/ gid.err # "" THEN <<>>
              ELSE <<[path |-> Join(<<outDir, destRel>>), uid |-> uid.id,
                      gid |-> gid.id]>>)
                 \o chownCommands(Tail(fs), outDir, strip)

\* fixOwnershipWithSudo(files, outputDir, stripComponents) on the host, where
\* target is what the output directory holds: the script, and the error of
\* running it, which is that of its last command
fixOwnershipWithSudo(fs, outDir, strip, target) ==
    LET commands == chownCommands(fs, outDir, strip)
    IN  [script |-> commands,
         err |-> IF commands # <<>> /\ commands[Len(commands)].path \notin DOMAIN target
                     THEN "failed to fix ownership: exit status 1"
                     ELSE ""]

\* main after Compare with the exit on differences left out
statusIgnoringDifferences(res) == 0

\* main after Compare: os.Exit(1) if differences were found, else main returns
statusAfterCompare(res) == IF res.Summary.TotalDifferences > 0 THEN 1 ELSE 0

-----------------------------------------------------------------------------
(* Specifications *)

CmpIdle ==
    /\ old = <<>> /\ new = <<>> /\ mode = CompareAll /\ result = NoResult
    /\ cpc = "idle"

WalkIdle ==
    /\ inspector = Readme /\ tree = {"/"}
    /\ args = [Path |-> "/", Pattern |-> "", MD5 |-> FALSE, NoTimes |-> FALSE,
               JSON |-> TRUE]
    /\ todo = <<>> /\ files = <<>> /\ walkErr = "" /\ wpc = "idle"
    /\ exitStatus = -1 /\ stdout = <<>>

DestIdle ==
    /\ sourcePath = "" /\ stripComponents = 0 /\ outputDir = ""
    /\ destPath = "" /\ fullDestPath = "" /\ dpc = "idle"

MainIdle ==
    /\ margs = [NoTimes |-> FALSE, JSON |-> FALSE, OwnershipUnsupported |-> FALSE]
    /\ files1JSON = NotRun /\ files2JSON = NotRun
    /\ files1 = <<>> /\ files2 = <<>>
    /\ mainResult = NoResult /\ mainOut = <<>> /\ mainExit = -1 /\ mpc = "idle"
    /\ script = <<>>

ExtIdle ==
    /\ broken = {} /\ targetFs = <<>> /\ stderr = <<>> /\ calls = <<>> /\ xi = 0

InitCompare ==
    /\ WalkIdle /\ DestIdle /\ MainIdle /\ ExtIdle
    /\ old \in Snapshots
    /\ new \in Snapshots
    /\ mode \in Modes
    /\ result = NoResult
    /\ cpc = "call"

\* result, err := Compare(old, new, mode)
CompareCall ==
    /\ cpc = "call"
    /\ \E oldOrder \in Perms(keysOf(old)), newOrder \in Perms(keysOf(new)) :
           result' = Compare(old, new, mode, oldOrder, newOrder)
    /\ cpc' = "done"
    /\ UNCHANGED <<old, new, mode>>
    /\ UNCHANGED <<walkVars, destVars, mainVars, extVars>>

NextCompare == CompareCall

SpecCompare == InitCompare /\ [][NextCompare]_vars

\* Compare is called on two lists that need not be sorted nor free of
\* repeated paths
InitShape ==
    /\ WalkIdle /\ DestIdle /\ MainIdle /\ ExtIdle
    /\ old \in EntryLists
    /\ new \in EntryLists
    /\ mode \in Modes
    /\ result = NoResult
    /\ cpc = "call"

SpecShape == InitShape /\ [][NextCompare]_vars

\* Compare is called on two snapshots that hold paths of the exclusion list
InitExclusion ==
    /\ WalkIdle /\ DestIdle /\ MainIdle /\ ExtIdle
    /\ old \in ExclSnapshots
    /\ new \in ExclSnapshots
    /\ mode \in Modes
    /\ result = NoResult
    /\ cpc = "call"

SpecExclusion == InitExclusion /\ [][NextCompare]_vars

\* Compare is called on two snapshots of one entry each, at the same path
InitGates ==
    /\ WalkIdle /\ DestIdle /\ MainIdle /\ ExtIdle
    /\ \E o \in GateEntries : old = <<o>>
    /\ \E n \in GateEntries : new = <<n>>
    /\ mode \in Modes
    /\ result = NoResult
    /\ cpc = "call"

SpecGates == InitGates /\ [][NextCompare]_vars

\* the inspector has parsed its arguments: any of the three inspectors, any
\* filesystem, --path, --glob, --md5, --no-times; --json exists in
\* cmd/internal-inspector/main.go only, the other two always write JSON
InitWalk ==
    /\ CmpIdle /\ DestIdle /\ MainIdle /\ ExtIdle
    /\ inspector \in Inspectors
    /\ tree \in Trees
    /\ args \in {a \in [Path : Roots, Pattern : Patterns, MD5 : BOOLEAN,
                         NoTimes : BOOLEAN, JSON : BOOLEAN] :
                     inspector # Legacy => a.JSON}
    /\ todo = <<[path |-> args.Path, depth |-> 0]>>
    /\ files = <<>>
    /\ walkErr = ""
    /\ wpc = "walk"
    /\ exitStatus = -1
    /\ stdout = <<>>

\* filepath.Walk calls the callback on the next node; r is what it returned
Visit(r) ==
    LET exists == Head(todo).path \in tree
        next == walkNext(tree, todo, exists, r.ret)
    IN  /\ files' = files \o r.out
        /\ IF r.ret = Panic
               THEN /\ wpc' = "exit" /\ exitStatus' = 2 /\ todo' = <<>>
                    /\ walkErr' = walkErr
               ELSE /\ todo' = next
                    /\ walkErr' = IF r.ret \in {"", SkipDir} THEN "" ELSE r.ret
                    /\ wpc' = IF next = <<>> THEN "walked" ELSE "walk"
                    /\ exitStatus' = exitStatus
        /\ UNCHANGED <<inspector, tree, args, stdout>>
        /\ UNCHANGED <<cmpVars, destVars, mainVars, extVars>>

VisitLegacy ==
    /\ wpc = "walk" /\ inspector = Legacy
    /\ Visit(walkFnLegacy(args, tree, Head(todo).path, Head(todo).path \in tree))

VisitPart001 ==
    /\ wpc = "walk" /\ inspector = Part001
    /\ Visit(walkFnPart001(args, tree, Head(todo).path, Head(todo).path \in tree))

VisitReadme ==
    /\ wpc = "walk" /\ inspector = Readme
    /\ Visit(walkFnReadme(args, tree, Head(todo).path, Head(todo).path \in tree))

\* after the walk: an error that is neither a permission nor a not-exist error
\* ends the run with status 1; otherwise files is sorted by path
SortFiles ==
    /\ wpc = "walked"
    /\ IF walkErr # ""
           THEN /\ wpc' = "exit" /\ exitStatus' = 1 /\ files' = files
           ELSE /\ wpc' = "sorted" /\ exitStatus' = exitStatus
                /\ files' = sortByPath(files)
    /\ UNCHANGED <<inspector, tree, args, todo, walkErr, stdout>>
    /\ UNCHANGED <<cmpVars, destVars, mainVars, extVars>>

\* the snapshot is written (as JSON, or as a table without --json) and main
\* returns
Encode ==
    /\ wpc = "sorted"
    /\ stdout' = <<[format |-> IF args.JSON THEN "json" ELSE "table", files |-> files]>>
    /\ wpc' = "exit"
    /\ exitStatus' = 0
    /\ UNCHANGED <<inspector, tree, args, todo, files, walkErr>>
    /\ UNCHANGED <<cmpVars, destVars, mainVars, extVars>>

NextWalk == VisitLegacy \/ VisitPart001 \/ VisitReadme \/ SortFiles \/ Encode

SpecWalk == InitWalk /\ [][NextWalk]_vars

\* the inspector has parsed its arguments and walks an image that may hold
\* /etc/loop, a symlink to the directory /etc that holds it, from /, from
\* /etc or from the symlink itself; filepath.Walk goes on for as long as it
\* has a node left, and so does main after it
CyclePaths ==
    {"/", "/etc", "/etc/empty", "/etc/loop", "/etc/nginx"}

InitCycle ==
    /\ CmpIdle /\ DestIdle /\ MainIdle /\ ExtIdle
    /\ inspector \in Inspectors
    /\ tree \in TreesOver(CyclePaths)
    /\ args \in {a \in [Path : {"/", "/etc", "/etc/loop"}, Pattern : {""},
                         MD5 : BOOLEAN, NoTimes : {FALSE}, JSON : BOOLEAN] :
                     inspector # Legacy => a.JSON}
    /\ args.Path \in tree
    /\ todo = <<[path |-> args.Path, depth |-> 0]>>
    /\ files = <<>>
    /\ walkErr = ""
    /\ wpc = "walk"
    /\ exitStatus = -1
    /\ stdout = <<>>

FairSpecCycle == InitCycle /\ [][NextWalk]_vars /\ WF_vars(NextWalk)

\* the inspector has parsed its arguments, a glob among them: patterns that
\* match below a directory they do not match (/etc/**/*.conf), a base name
\* (*.conf), the entries of one directory (/etc/*), and everything (/**)
GlobPaths ==
    {"/", "/etc", "/etc/nginx", "/etc/nginx/nginx.conf", "/etc.bak", "/proc",
     "/proc/version"}

GlobPatterns == {"/etc/**/*.conf", "*.conf", "/etc/*", "/**"}

InitGlob ==
    /\ CmpIdle /\ DestIdle /\ MainIdle /\ ExtIdle
    /\ inspector \in Inspectors
    /\ tree \in {t \in Trees : t \subseteq GlobPaths}
    /\ args \in [Path : {"/", "/etc", "/proc/version"}, Pattern : GlobPatterns, MD5 : {FALSE},
                 NoTimes : {FALSE}, JSON : {TRUE}]
    /\ args.Path \in tree
    /\ todo = <<[path |-> args.Path, depth |-> 0]>>
    /\ files = <<>>
    /\ walkErr = ""
    /\ wpc = "walk"
    /\ exitStatus = -1
    /\ stdout = <<>>

SpecGlob == InitGlob /\ [][NextWalk]_vars

\* an inspector has parsed its arguments, --md5 among them; a regular file
\* may vanish between the os.Lstat of filepath.Walk and the os.Open of
\* calculateMD5
InitHash ==
    /\ CmpIdle /\ DestIdle /\ MainIdle /\ ExtIdle
    /\ inspector \in Inspectors
    /\ tree \in FaultTrees
    /\ args \in {a \in [Path : {"/"}, Pattern : {"", "/etc/**"}, MD5 : {TRUE},
                         NoTimes : BOOLEAN, JSON : BOOLEAN] :
                     inspector # Legacy => a.JSON}
    /\ todo = <<[path |-> args.Path, depth |-> 0]>>
    /\ files = <<>>
    /\ walkErr = ""
    /\ wpc = "walk"
    /\ exitStatus = -1
    /\ stdout = <<>>

\* filepath.Walk calls the callback of inspector i on the next node; gone
\* tells whether the file has been removed when calculateMD5 opens it
VisitHashing(i) ==
    /\ \E gone \in IF /\ NodeAt(Head(todo).path).kind = "file"
                      /\ Cardinality(broken) < MaxFaults
                      THEN BOOLEAN ELSE {FALSE} :
          LET path == Head(todo).path
              seen == IF gone THEN tree \ {path} ELSE tree
              r == IF i = Legacy THEN walkFnLegacy(args, seen, path, TRUE)
                   ELSE IF i = Part001 THEN walkFnPart001(args, seen, path, TRUE)
                   ELSE walkFnReadme(args, seen, path, TRUE)
              next == walkNext(tree, todo, TRUE, r.ret)
          IN  /\ broken' = IF gone THEN broken \cup {<<path, "Open">>} ELSE broken
              /\ files' = files \o r.out
              /\ todo' = next
              /\ walkErr' = IF r.ret \in {"", SkipDir} THEN "" ELSE r.ret
              /\ wpc' = IF next = <<>> THEN "walked" ELSE "walk"
    /\ UNCHANGED <<inspector, tree, args, stdout, exitStatus>>
    /\ UNCHANGED <<targetFs, stderr, calls, xi>>
    /\ UNCHANGED <<cmpVars, destVars, mainVars>>

VisitHashingLegacy ==
    /\ wpc = "walk" /\ inspector = Legacy
    /\ VisitHashing(Legacy)

VisitHashingPart001 ==
    /\ wpc = "walk" /\ inspector = Part001
    /\ VisitHashing(Part001)

VisitHashingReadme ==
    /\ wpc = "walk" /\ inspector = Readme
    /\ VisitHashing(Readme)

NextHash ==
    VisitHashingLegacy \/ VisitHashingPart001 \/ VisitHashingReadme \/ SortFiles \/ Encode

SpecHash == InitHash /\ [][NextHash]_vars

\* the inspector of README.md has parsed its arguments; the mounted output
\* directory is empty and no call has failed
InitExtract ==
    /\ CmpIdle /\ DestIdle /\ MainIdle
    /\ inspector = Readme
    /\ tree \in ExtractTrees
    /\ args \in ExtractArgs
    /\ todo = <<[path |-> args.Path, depth |-> 0]>>
    /\ files = <<>>
    /\ walkErr = ""
    /\ wpc = "walk"
    /\ exitStatus = -1
    /\ stdout = <<>>
    /\ broken = {}
    /\ targetFs = EmptyTarget
    /\ stderr = <<>>
    /\ calls = <<>>
    /\ xi = 1

\* one iteration of `for _, file := range files` under args.OutputDir != "";
\* bad is the set of its calls that fail
ExtractEntry ==
    /\ wpc = "sorted"
    /\ args.OutputDir # ""
    /\ xi <= Len(files)
    /\ \E bad \in IF files[xi].IsDir
                     \/ getDestPath(files[xi].Path, args.StripComponents) = ""
                     THEN {{}}
                     ELSE EntryFaults(broken, NodeAt(files[xi].Path).kind) :
          LET r == extractEntry(targetFs, files[xi], args, bad)
          IN  /\ broken' = broken \cup {<<files[xi].Path, c>> : c \in bad}
              /\ targetFs' = r.fs
              /\ stderr' = stderr \o r.warnings
              /\ calls' = calls \o r.calls
              /\ IF r.fatal
                    THEN wpc' = "exit" /\ exitStatus' = 1 /\ xi' = xi
                    ELSE wpc' = wpc /\ exitStatus' = exitStatus /\ xi' = xi + 1
    /\ UNCHANGED <<inspector, tree, args, todo, files, walkErr, stdout>>
    /\ UNCHANGED <<cmpVars, destVars, mainVars>>

\* encoder.Encode(files) after the extraction, and main returns
EncodeSnapshot ==
    /\ wpc = "sorted"
    /\ args.OutputDir = "" \/ xi > Len(files)
    /\ stdout' = <<[format |-> "json", files |-> files]>>
    /\ wpc' = "exit"
    /\ exitStatus' = 0
    /\ UNCHANGED <<inspector, tree, args, todo, files, walkErr>>
    /\ UNCHANGED <<cmpVars, destVars, mainVars, extVars>>

NextExtract == VisitReadme \/ SortFiles \/ ExtractEntry \/ EncodeSnapshot

SpecExtract == InitExtract /\ [][NextExtract]_vars

\* an inspector has parsed its arguments and no call has failed; the walk
\* root may be missing from the tree
InitFaults ==
    /\ CmpIdle /\ DestIdle /\ MainIdle /\ ExtIdle
    /\ inspector \in Inspectors
    /\ tree \in FaultTrees
    /\ args \in [Path : {"/", "/etc"}, Pattern : {""}, MD5 : {FALSE},
                 NoTimes : {FALSE}, JSON : {TRUE}]
    /\ todo = <<[path |-> args.Path, depth |-> 0]>>
    /\ files = <<>>
    /\ walkErr = ""
    /\ wpc = "walk"
    /\ exitStatus = -1
    /\ stdout = <<>>

\* filepath.Walk calls os.Lstat and readDirNames on the next node, f is their
\* outcome, and then the callback of inspector i; a nil pointer dereference
\* in the callback ends the process with status 2
VisitOn(i) ==
    /\ \E f \in NodeFaults(tree, Head(todo).path, broken) :
          LET path == Head(todo).path
              r == walkFnOn(i, args, tree, path, f)
              next == walkNextOn(tree, todo, f, r.ret)
          IN  /\ broken' = IF f = NoFault THEN broken ELSE broken \cup {<<path, f>>}
              /\ stderr' = stderr \o r.warnings
              /\ files' = files \o r.out
              /\ IF r.ret = Panic
                     THEN /\ wpc' = "exit" /\ exitStatus' = 2 /\ todo' = <<>>
                          /\ walkErr' = walkErr
                     ELSE /\ todo' = next
                          /\ walkErr' = IF r.ret \in {"", SkipDir} THEN "" ELSE r.ret
                          /\ wpc' = IF next = <<>> THEN "walked" ELSE "walk"
                          /\ exitStatus' = exitStatus
    /\ UNCHANGED <<inspector, tree, args, stdout>>
    /\ UNCHANGED <<targetFs, calls, xi>>
    /\ UNCHANGED <<cmpVars, destVars, mainVars>>

VisitOnLegacy ==
    /\ wpc = "walk" /\ inspector = Legacy
    /\ VisitOn(Legacy)

VisitOnPart001 ==
    /\ wpc = "walk" /\ inspector = Part001
    /\ VisitOn(Part001)

VisitOnReadme ==
    /\ wpc = "walk" /\ inspector = Readme
    /\ VisitOn(Readme)

NextFaults == VisitOnLegacy \/ VisitOnPart001 \/ VisitOnReadme \/ SortFiles \/ Encode

SpecFaults == InitFaults /\ [][NextFaults]_vars

\* the inspector of README.md extracts from images that hold files of one
\* name in two directories
CollidePaths == {"/", "/etc", "/etc/empty", "/etc.bak", "/opt", "/opt/empty"}

InitCollide ==
    /\ CmpIdle /\ DestIdle /\ MainIdle
    /\ inspector = Readme
    /\ tree \in TreesOver(CollidePaths)
    /\ args \in {a \in ExtractArgs :
                    /\ a.Path = "/" /\ a.Pattern = ""
                    /\ a.OutputDir = TargetDir
                    /\ ~a.PreservePermissions /\ ~a.PreserveOwner}
    /\ todo = <<[path |-> args.Path, depth |-> 0]>>
    /\ files = <<>>
    /\ walkErr = ""
    /\ wpc = "walk"
    /\ exitStatus = -1
    /\ stdout = <<>>
    /\ broken = {}
    /\ targetFs = EmptyTarget
    /\ stderr = <<>>
    /\ calls = <<>>
    /\ xi = 1

SpecCollide == InitCollide /\ [][NextExtract]_vars

\* docker-inspector is started with one image, --output-dir and
\* --preserve-owner; the inspector of README.md runs in the container with
\* the output directory mounted at /inspect-target
InitRepair ==
    /\ CmpIdle /\ DestIdle
    /\ margs \in [NoTimes : {FALSE}, JSON : BOOLEAN, OwnershipUnsupported : {FALSE},
                  Darwin : BOOLEAN]
    /\ files1JSON = NotRun /\ files2JSON = NotRun
    /\ files1 = <<>> /\ files2 = <<>>
    /\ mainResult = NoResult
    /\ mainOut = <<>>
    /\ mainExit = -1
    /\ mpc = "run1"
    /\ script = <<>>
    /\ inspector = Readme
    /\ tree \in ExtractTrees
    /\ args \in {a \in ExtractArgs :
                    /\ a.Path = "/" /\ a.Pattern = ""
                    /\ a.OutputDir = TargetDir
                    /\ ~a.PreservePermissions}
    /\ todo = <<[path |-> args.Path, depth |-> 0]>>
    /\ files = <<>>
    /\ walkErr = ""
    /\ wpc = "walk"
    /\ exitStatus = -1
    /\ stdout = <<>>
    /\ broken = {}
    /\ targetFs = EmptyTarget
    /\ stderr = <<>>
    /\ calls = <<>>
    /\ xi = 1

\* main of docker-inspector with one image, after runInspector returned: the
\* snapshot is printed as received or as a table, and on macOS with
\* --output-dir and --preserve-owner the ownership is fixed with sudo
SingleImage ==
    /\ mpc = "run1"
    /\ wpc = "exit"
    /\ files1JSON' = IF exitStatus = 0 THEN [err |-> "", output |-> stdout]
                     ELSE [err |-> "exit status " \o ToString(exitStatus),
                           output |-> <<>>]
    /\ LET u == Unmarshal(stdout)
           fix == fixOwnershipWithSudo(u.files, args.OutputDir,
                                       args.StripComponents, targetFs)
           repair == margs.Darwin /\ args.OutputDir # "" /\ args.PreserveOwner
       IN  IF exitStatus # 0
               THEN /\ mainExit' = 1
                    /\ UNCHANGED <<files1, mainOut, script>>
           ELSE IF u.err # "" /\ (~margs.JSON \/ repair)
               THEN /\ mainExit' = 1
                    /\ mainOut' = IF margs.JSON THEN stdout ELSE <<>>
                    /\ UNCHANGED <<files1, script>>
           ELSE /\ files1' = IF ~margs.JSON \/ repair THEN u.files ELSE files1
                /\ mainOut' = IF margs.JSON THEN stdout
                              ELSE <<[format |-> "table", files |-> u.files]>>
                /\ script' = IF repair THEN fix.script ELSE script
                /\ mainExit' = IF repair /\ fix.err # "" THEN 1 ELSE 0
    /\ mpc' = "exit"
    /\ UNCHANGED <<margs, files2JSON, files2, mainResult>>
    /\ UNCHANGED <<cmpVars, walkVars, destVars, extVars>>

NextRepair == VisitReadme \/ SortFiles \/ ExtractEntry \/ EncodeSnapshot \/ SingleImage

SpecRepair == InitRepair /\ [][NextRepair]_vars

\* the extraction loop reaches a file of the snapshot
InitDest ==
    /\ CmpIdle /\ WalkIdle /\ MainIdle /\ ExtIdle
    /\ sourcePath \in SourcePaths
    /\ stripComponents \in 0..MaxStrip
    /\ outputDir \in OutputDirs
    /\ destPath = ""
    /\ fullDestPath = ""
    /\ dpc = "loop"

\* destPath := getDestPath(file.Path, args.StripComponents)
GetDestPath ==
    /\ dpc = "loop"
    /\ destPath' = getDestPath(sourcePath, stripComponents)
    /\ dpc' = "dest"
    /\ UNCHANGED <<sourcePath, stripComponents, outputDir, fullDestPath>>
    /\ UNCHANGED <<cmpVars, walkVars, mainVars, extVars>>

\* if destPath == "" { continue }
SkipStripped ==
    /\ dpc = "dest"
    /\ destPath = ""
    /\ dpc' = "skipped"
    /\ UNCHANGED <<sourcePath, stripComponents, outputDir, destPath, fullDestPath>>
    /\ UNCHANGED <<cmpVars, walkVars, mainVars, extVars>>

\* fullDestPath := filepath.Join(args.OutputDir, destPath), the path handed to
\* copyFile
JoinOutputDir ==
    /\ dpc = "dest"
    /\ destPath # ""
    /\ fullDestPath' = Join(<<outputDir, destPath>>)
    /\ dpc' = "copy"
    /\ UNCHANGED <<sourcePath, stripComponents, outputDir, destPath>>
    /\ UNCHANGED <<cmpVars, walkVars, mainVars, extVars>>

NextDest == GetDestPath \/ SkipStripped \/ JoinOutputDir

SpecDest == InitDest /\ [][NextDest]_vars

\* docker-inspector is started with two images
InitMain ==
    /\ CmpIdle /\ WalkIdle /\ DestIdle /\ ExtIdle
    /\ margs \in [NoTimes : BOOLEAN, JSON : BOOLEAN, OwnershipUnsupported : BOOLEAN]
    /\ files1JSON = NotRun /\ files2JSON = NotRun
    /\ files1 = <<>> /\ files2 = <<>>
    /\ mainResult = NoResult
    /\ mainOut = <<>>
    /\ mainExit = -1
    /\ mpc = "start"
    /\ script = <<>>

\* on macOS with --output-dir and owner preservation, a filesystem that does
\* not support ownership changes ends the run
CheckOwnership ==
    /\ mpc = "start"
    /\ IF margs.OwnershipUnsupported
          THEN mpc' = "exit" /\ mainExit' = 1
          ELSE mpc' = "run1" /\ mainExit' = mainExit
    /\ UNCHANGED <<script, margs, files1JSON, files2JSON, files1, files2, mainResult, mainOut>>
    /\ UNCHANGED <<cmpVars, walkVars, destVars, extVars>>

\* files1JSON, err := runInspector(args.Image1, args)
RunInspector1 ==
    /\ mpc = "run1"
    /\ \E r \in RunOutcomes :
          /\ files1JSON' = r
          /\ IF r.err # ""
                THEN mpc' = "exit" /\ mainExit' = 1
                ELSE mpc' = "parse1" /\ mainExit' = mainExit
    /\ UNCHANGED <<script, margs, files2JSON, files1, files2, mainResult, mainOut>>
    /\ UNCHANGED <<cmpVars, walkVars, destVars, extVars>>

\* json.Unmarshal(files1JSON, &files1)
Parse1 ==
    /\ mpc = "parse1"
    /\ LET u == Unmarshal(files1JSON.output)
       IN  /\ files1' = u.files
           /\ IF u.err # ""
                 THEN mpc' = "exit" /\ mainExit' = 1
                 ELSE mpc' = "run2" /\ mainExit' = mainExit
    /\ UNCHANGED <<script, margs, files1JSON, files2JSON, files2, mainResult, mainOut>>
    /\ UNCHANGED <<cmpVars, walkVars, destVars, extVars>>

\* files2JSON, err := runInspector(args.Image2, args)
RunInspector2 ==
    /\ mpc = "run2"
    /\ \E r \in RunOutcomes :
          /\ files2JSON' = r
          /\ IF r.err # ""
                THEN mpc' = "exit" /\ mainExit' = 1
                ELSE mpc' = "parse2" /\ mainExit' = mainExit
    /\ UNCHANGED <<script, margs, files1JSON, files1, files2, mainResult, mainOut>>
    /\ UNCHANGED <<cmpVars, walkVars, destVars, extVars>>

\* json.Unmarshal(files2JSON, &files2)
Parse2 ==
    /\ mpc = "parse2"
    /\ LET u == Unmarshal(files2JSON.output)
       IN  /\ files2' = u.files
           /\ IF u.err # ""
                 THEN mpc' = "exit" /\ mainExit' = 1
                 ELSE mpc' = "compare" /\ mainExit' = mainExit
    /\ UNCHANGED <<script, margs, files1JSON, files2JSON, files1, mainResult, mainOut>>
    /\ UNCHANGED <<cmpVars, walkVars, destVars, extVars>>

\* Compare(files1, files2, mode), the result written as JSON or as text, and
\* the exit status
CompareImages ==
    /\ mpc = "compare"
    /\ \E oldOrder \in Perms(keysOf(files1)), newOrder \in Perms(keysOf(files2)) :
          LET res == Compare(files1, files2,
                             IF margs.NoTimes THEN CompareNoTimes ELSE CompareAll,
                             oldOrder, newOrder)
          IN  /\ mainResult' = res
              /\ mainOut' = <<[format |-> IF margs.JSON THEN "json" ELSE "text",
                               result |-> res]>>
              /\ mainExit' = statusAfterCompare(res)
    /\ mpc' = "exit"
    /\ UNCHANGED <<script, margs, files1JSON, files2JSON, files1, files2>>
    /\ UNCHANGED <<cmpVars, walkVars, destVars, extVars>>

NextMain ==
    \/ CheckOwnership
    \/ RunInspector1
    \/ Parse1
    \/ RunInspector2
    \/ Parse2
    \/ CompareImages

SpecMain == InitMain /\ [][NextMain]_vars

-----------------------------------------------------------------------------
(* Properties of Compare *)

PathsOf(fs) == {fs[i].Path : i \in DOMAIN fs}

\* the entry of a snapshot at a path
EntryAt(fs, p) == fs[CHOOSE i \in DOMAIN fs : fs[i].Path = p]

\* the diffs of a result whose path is p
DiffsAt(res, p) == {i \in DOMAIN res.Differences : res.Differences[i].Path = p}

\* the paths a result tags with t
TaggedPaths(res, t) ==
    {res.Differences[i].Path :
        i \in {j \in DOMAIN res.Differences : res.Differences[j].Type = t}}

\* the number of diffs of a result tagged t
TaggedCount(res, t) ==
    Cardinality({i \in DOMAIN res.Differences : res.Differences[i].Type = t})

\* C1 -- idempotence of Compare: a snapshot compared against itself, in either
\* mode, gives no differences and a summary whose four counts are 0
C1_Idempotence ==
    (cpc = "done" /\ old = new) =>
        /\ result.Differences = <<>>
        /\ result.Summary.AddedFiles = 0
        /\ result.Summary.RemovedFiles = 0
        /\ result.Summary.ModifiedFiles = 0
        /\ result.Summary.TotalDifferences = 0

\* a snapshot of two entries, one of them with a timestamp and a hash, has
\* been compared against itself with times included
C1_Witness ==
    /\ cpc = "done" /\ old = new /\ mode = CompareAll
    /\ Len(old) = 2
    /\ \E i \in DOMAIN old :
           /\ ~isSpecialFile(old[i].Path)
           /\ old[i].ModTime # NilTime /\ old[i].MD5 # ""

\* C2 -- symmetry of Compare: Compare(A, B) and Compare(B, A) tag the same
\* paths Modified, and the Added paths of one are the Removed paths of the other
C2_Symmetry ==
    cpc = "done" =>
        \A oldOrder \in Perms(keysOf(new)), newOrder \in Perms(keysOf(old)) :
            LET reverse == Compare(new, old, mode, oldOrder, newOrder)
            IN  /\ TaggedPaths(result, Modified) = TaggedPaths(reverse, Modified)
                /\ TaggedPaths(result, Added) = TaggedPaths(reverse, Removed)
                /\ TaggedPaths(result, Removed) = TaggedPaths(reverse, Added)

\* two snapshots with an added and a modified path have been compared
C2_Witness ==
    /\ cpc = "done"
    /\ TaggedPaths(result, Modified) # {}
    /\ TaggedPaths(result, Added) # {}
    /\ old # new

\* C3 -- existence mismatch always wins: a non-excluded path of only the old
\* snapshot has exactly one diff, tagged Removed; a non-excluded path of only
\* the new snapshot has exactly one diff, tagged Added
C3_ExistenceMismatch ==
    cpc = "done" =>
        /\ \A p \in PathsOf(old) \ PathsOf(new) :
               ~isSpecialFile(p) =>
                   /\ Cardinality(DiffsAt(result, p)) = 1
                   /\ \A i \in DiffsAt(result, p) : result.Differences[i].Type = Removed
        /\ \A p \in PathsOf(new) \ PathsOf(old) :
               ~isSpecialFile(p) =>
                   /\ Cardinality(DiffsAt(result, p)) = 1
                   /\ \A i \in DiffsAt(result, p) : result.Differences[i].Type = Added

\* a rename: the same entry at /a in the old and at /b in the new snapshot
\* and nothing else has been compared, giving one Removed and one Added
C3_Witness ==
    /\ cpc = "done"
    /\ Len(old) = 1 /\ Len(new) = 1
    /\ old[1].Path = "/a" /\ new[1].Path = "/b"
    /\ [old[1] EXCEPT !.Path = "/b"] = new[1]
    /\ TaggedPaths(result, Removed) = {"/a"}
    /\ TaggedPaths(result, Added) = {"/b"}

\* C4 -- a path of both snapshots has a Modified diff exactly if compareFiles
\* yields a delta, and that diff carries all deltas; with no delta it has no
\* diff. Size 10 against size 20 at /a gives one Modified diff with the
\* details ["size changed: 10 -> 20"]
C4_ModifiedIffDelta ==
    cpc = "done" =>
        /\ \A p \in PathsOf(old) \cap PathsOf(new) :
               ~isSpecialFile(p) =>
                   LET deltas == compareFiles(EntryAt(old, p), EntryAt(new, p), mode)
                   IN  IF deltas = <<>>
                           THEN DiffsAt(result, p) = {}
                           ELSE /\ Cardinality(DiffsAt(result, p)) = 1
                                /\ \A i \in DiffsAt(result, p) :
                                       /\ result.Differences[i].Type = Modified
                                       /\ result.Differences[i].Details = deltas
        /\ (/\ old = <<[Shapes[1] EXCEPT !.Path = "/a"]>>
            /\ new = <<[Shapes[2] EXCEPT !.Path = "/a"]>>)
               => /\ Len(result.Differences) = 1
                  /\ result.Differences[1].Path = "/a"
                  /\ result.Differences[1].Type = Modified
                  /\ result.Differences[1].Details = <<"size changed: 10 -> 20">>

\* the size scenario has been compared, and so has a pair with several deltas
C4_Witness ==
    /\ cpc = "done"
    /\ old = <<[Shapes[1] EXCEPT !.Path = "/a"]>>
    /\ new = <<[Shapes[2] EXCEPT !.Path = "/a"]>>
    /\ result.Summary.ModifiedFiles = 1

-----------------------------------------------------------------------------
(* Properties of the inspector's snapshot *)

\* the entries of the snapshot written to standard output
Emitted == IF stdout = <<>> THEN <<>> ELSE stdout[1].files

\* path is dir or lies beneath it
Beneath(path, dir) == path = dir \/ HasPrefix(path, dir \o "/")

\* C6 -- every snapshot the inspector writes is strictly increasing by path
\* under byte-wise comparison, whatever the tree, the root, the glob and the
\* flags; so no two of its entries share a path
C6_StrictlyIncreasing ==
    /\ \A j \in 1..(Len(Emitted) - 1) : StrLess(Emitted[j].Path, Emitted[j + 1].Path)
    /\ \A j, k \in DOMAIN Emitted : j # k => Emitted[j].Path # Emitted[k].Path

\* a snapshot whose walk order (/etc, /etc/empty, /etc.bak) is not its order
\* by path (/etc, /etc.bak, /etc/empty) has been written
C6_Witness ==
    /\ exitStatus = 0
    /\ Len(Emitted) >= 3
    /\ \E j \in DOMAIN Emitted : Emitted[j].Path = "/etc.bak"
    /\ \E j \in DOMAIN Emitted : Emitted[j].Path = "/etc/empty"

\* C7 -- an entry of a snapshot carries a non-empty hash only if hashing was
\* requested and it is a regular file of non-zero size that is not a symlink:
\* directories, symlinks and zero-length files never carry a hash or an error
\* sentinel
C7_HashGating ==
    \A j \in DOMAIN Emitted :
        Emitted[j].MD5 # "" =>
            /\ args.MD5
            /\ ~Emitted[j].IsDir
            /\ Emitted[j].Size > 0
            /\ Emitted[j].SymlinkTo = ""

\* C10 -- no entry of a snapshot is, or lies beneath, /proc, /sys, /dev,
\* /inspect-target or /inspect, whatever the tree, the walk root and the glob
C10_SpecialExcluded ==
    \A j \in DOMAIN Emitted :
        \A dir \in {"/proc", "/sys", "/dev", "/inspect-target", "/inspect"} :
            ~Beneath(Emitted[j].Path, dir)

\* C23 -- every entry of a snapshot that is a directory has size 0, whatever
\* size the filesystem reports for the directory node
C23_DirectorySizeZero ==
    \A j \in DOMAIN Emitted : Emitted[j].IsDir => Emitted[j].Size = 0

\* C26 -- within one snapshot either every entry carries a modTime (times
\* requested) or none does (--no-times); an absent time is never written as a
\* zero timestamp, and an entry whose time is the epoch still carries a
\* modTime when times are requested
C26_TimestampPresence ==
    \A j \in DOMAIN Emitted :
        /\ args.NoTimes => Emitted[j].ModTime = NilTime
        /\ ~args.NoTimes => Emitted[j].ModTime = <<NodeAt(Emitted[j].Path).mtime>>

\* a snapshot with times has been written that holds /etc/empty, whose
\* modification time is the epoch, next to entries with later times
C26_Witness ==
    /\ exitStatus = 0
    /\ ~args.NoTimes
    /\ Len(Emitted) >= 2
    /\ \E j \in DOMAIN Emitted :
           Emitted[j].Path = "/etc/empty" /\ Emitted[j].ModTime = <<0>>
    /\ \E j \in DOMAIN Emitted : Emitted[j].ModTime = <<1>>

-----------------------------------------------------------------------------
(* Properties of the extraction path and of docker-inspector *)

\* the slash-delimited components of an absolute path, the leading empty one
\* removed
Components(p) == Tail(Split(p))

\* C8 -- an entry at an absolute source path of k components is skipped, and
\* nothing is written for it, when stripComponents n >= k; otherwise it is
\* written at the destination root joined with components n+1..k in order;
\* n = 0 keeps the full path under the destination root, and
\* /etc/nginx/nginx.conf with n = 2 and destination ./out is written at
\* ./out/nginx.conf
C8_PathTransform ==
    dpc \in {"skipped", "copy"} =>
        LET comps == Components(sourcePath)
            k == Len(comps)
            n == stripComponents
        IN  /\ (n >= k) <=> (dpc = "skipped")
            /\ dpc = "skipped" => fullDestPath = ""
            /\ dpc = "copy" =>
                   /\ fullDestPath = Join(<<outputDir>> \o SubSeq(comps, n + 1, k))
                   /\ cleanElems(Split(fullDestPath), <<>>, FALSE) =
                          cleanElems(Split(outputDir), <<>>, FALSE)
                          \o SelectSeq(SubSeq(comps, n + 1, k), LAMBDA e : e # "")
            /\ (dpc = "copy" /\ n = 0) => fullDestPath = Join(<<outputDir, sourcePath>>)
            /\ (sourcePath = "/etc/nginx/nginx.conf" /\ n = 2 /\ outputDir = "./out") =>
                   /\ dpc = "copy"
                   /\ fullDestPath = Clean("./out/nginx.conf")

\* /etc/nginx/nginx.conf has been given its destination with two components
\* stripped under ./out
C8_Witness ==
    /\ dpc = "copy"
    /\ sourcePath = "/etc/nginx/nginx.conf"
    /\ stripComponents = 2
    /\ outputDir = "./out"
    /\ fullDestPath = "out/nginx.conf"

\* both inspections and both parses of a run of docker-inspector succeeded
BothParsed ==
    /\ files1JSON.err = "" /\ Unmarshal(files1JSON.output).err = ""
    /\ files2JSON.err = "" /\ Unmarshal(files2JSON.output).err = ""

\* Compare reports no difference between the two snapshots received
NoDifference ==
    LET f1 == Unmarshal(files1JSON.output).files
        f2 == Unmarshal(files2JSON.output).files
        m == IF margs.NoTimes THEN CompareNoTimes ELSE CompareAll
    IN  \A oldOrder \in Perms(keysOf(f1)), newOrder \in Perms(keysOf(f2)) :
            Compare(f1, f2, m, oldOrder, newOrder).Summary.TotalDifferences = 0

\* C9 -- in comparison mode the process exits with status 0 exactly if both
\* inspections and both parses succeeded and Compare reports no difference;
\* it exits with status 1 when a difference is found (old [/a], new [] gives
\* one Removed) or when a fatal error occurs
C9_ExitStatus ==
    /\ (mpc = "exit") <=> (mainExit # -1)
    /\ mpc = "exit" =>
           /\ mainExit \in {0, 1}
           /\ (mainExit = 0) <=> (BothParsed /\ NoDifference)
           /\ (BothParsed /\ PathsOf(files1) = {"/a"} /\ files2 = <<>>) =>
                  /\ mainExit = 1
                  /\ Len(mainResult.Differences) = 1
                  /\ mainResult.Differences[1].Type = Removed
                  /\ mainResult.Differences[1].Path = "/a"

\* the first image holds /a only, the second nothing, and the run has ended
\* with status 1 after reporting one Removed
C9_Witness ==
    /\ mpc = "exit"
    /\ BothParsed
    /\ PathsOf(files1) = {"/a"}
    /\ files2 = <<>>
    /\ mainResult.Summary.RemovedFiles = 1
    /\ mainExit = 1

\* C22 -- for fixed old, new and mode the differences Compare returns are
\* always the same sequence, in ascending order of path, whatever the order
\* in which the maps are iterated
C22_DeterministicOrder ==
    cpc = "done" =>
        /\ \A j \in 1..(Len(result.Differences) - 1) :
               StrLess(result.Differences[j].Path, result.Differences[j + 1].Path)
        /\ \A oldOrder \in Perms(keysOf(old)), newOrder \in Perms(keysOf(new)) :
               Compare(old, new, mode, oldOrder, newOrder).Differences
                   = result.Differences

\* the inspection ran and what it wrote is not a JSON snapshot
Malformed(r) == r.err = "" /\ (r.output = <<>> \/ r.output[1].format # "json")

\* C21 -- in comparison mode, when the output of either inspection cannot be
\* parsed as a snapshot the process exits with status 1 without calling
\* Compare and without writing a ChangeSet; the second image is inspected
\* only after the first inspection succeeded and its output was parsed
C21_MalformedSnapshotFatal ==
    /\ (mpc = "exit" /\ (Malformed(files1JSON) \/ Malformed(files2JSON))) =>
           /\ mainExit = 1
           /\ mainResult = NoResult
           /\ mainOut = <<>>
    /\ Malformed(files1JSON) => (mpc \in {"parse1", "exit"} /\ files2JSON = NotRun)
    /\ Malformed(files2JSON) => mpc \in {"parse2", "exit"}
    /\ (files2JSON # NotRun \/ mpc \in {"run2", "parse2", "compare"}) =>
           /\ files1JSON.err = "" /\ ~Malformed(files1JSON)
           /\ files1 = files1JSON.output[1].files
    /\ (mainResult # NoResult \/ mainOut # <<>> \/ mpc = "compare") =>
           /\ files1JSON.err = "" /\ ~Malformed(files1JSON)
           /\ files2JSON.err = "" /\ ~Malformed(files2JSON)

\* the first inspection wrote a snapshot with an entry, the second a table,
\* and the run has ended with status 1 and nothing written
C21_Witness ==
    /\ mpc = "exit"
    /\ files1JSON.err = "" /\ ~Malformed(files1JSON)
    /\ Len(files1) = 1
    /\ Malformed(files2JSON) /\ files2JSON.output # <<>>
    /\ mainExit = 1
    /\ mainResult = NoResult
    /\ mainOut = <<>>

-----------------------------------------------------------------------------
(* Properties of the differ's gates *)

\* the paths the differ is to ignore
Ignored(p) ==
    \/ p \in {"/etc/resolv.conf", "/etc/hostname", "/etc/hosts"}
    \/ HasPrefix(p, "/proc/") \/ HasPrefix(p, "/sys/") \/ HasPrefix(p, "/dev/")

\* a snapshot without its entries at ignored paths
WithoutIgnored(fs) == SelectSeq(fs, LAMBDA f : ~Ignored(f.Path))

\* C11 -- in both modes no diff of any kind is emitted for /etc/resolv.conf,
\* /etc/hostname, /etc/hosts or a path under /proc/, /sys/, /dev/, also when
\* the path is in one snapshot only or its attributes differ, and these paths
\* add nothing to the summary: it is the summary of the snapshots without them
C11_IgnoredPaths ==
    cpc = "done" =>
        /\ \A i \in DOMAIN result.Differences : ~Ignored(result.Differences[i].Path)
        /\ \A oldOrder \in Perms(PathsOf(WithoutIgnored(old))),
              newOrder \in Perms(PathsOf(WithoutIgnored(new))) :
               result.Summary = Compare(WithoutIgnored(old), WithoutIgnored(new), mode,
                                        oldOrder, newOrder).Summary
        /\ result.Summary.TotalDifferences = Len(result.Differences)

\* /etc/hostname is in the old snapshot only, /etc/hosts changes its size and
\* /a is added: the comparison has ended with the one diff of /a
C11_Witness ==
    /\ cpc = "done"
    /\ PathsOf(old) = {"/etc/hostname", "/etc/hosts"}
    /\ PathsOf(new) = {"/a", "/etc/hosts"}
    /\ EntryAt(old, "/etc/hosts").Size # EntryAt(new, "/etc/hosts").Size
    /\ result.Summary.TotalDifferences = 1
    /\ TaggedPaths(result, Added) = {"/a"}

\* the details of the Modified diff of a result at a path (none without one)
DetailsAt(res, p) ==
    IF \E i \in DiffsAt(res, p) : res.Differences[i].Type = Modified
        THEN res.Differences[CHOOSE i \in DiffsAt(res, p) :
                                 res.Differences[i].Type = Modified].Details
        ELSE <<>>

\* some detail of a list starts with the given words
HasDetail(details, words) == \E i \in DOMAIN details : HasPrefix(details[i], words)

\* C12 -- a "modification time changed" delta is produced for a common path
\* exactly if the mode is CompareAll, both entries carry a timestamp and the
\* timestamps differ; under CompareNoTimes, or when an entry lacks its
\* timestamp, snapshots that differ in modification times only compare as
\* having no differences
C12_ModTimeGating ==
    cpc = "done" =>
        \A p \in PathsOf(old) \cap PathsOf(new) :
            LET o == EntryAt(old, p)
                n == EntryAt(new, p)
            IN  /\ HasDetail(DetailsAt(result, p), "modification time changed: ")
                       <=> /\ mode = CompareAll
                           /\ o.ModTime # NilTime /\ n.ModTime # NilTime
                           /\ o.ModTime # n.ModTime
                /\ (/\ [o EXCEPT !.ModTime = NilTime] = [n EXCEPT !.ModTime = NilTime]
                    /\ PathsOf(old) = PathsOf(new)
                    /\ Len(old) = 1
                    /\ (mode = CompareNoTimes \/ o.ModTime = NilTime \/ n.ModTime = NilTime))
                       => /\ result.Differences = <<>>
                          /\ result.Summary.TotalDifferences = 0

\* two entries that differ in their times only (1 against 2) have been
\* compared under CompareAll and reported as Modified for the time alone
C12_Witness ==
    /\ cpc = "done"
    /\ mode = CompareAll
    /\ Len(old) = 1 /\ Len(new) = 1
    /\ old[1].ModTime = <<1>> /\ new[1].ModTime = <<2>>
    /\ [old[1] EXCEPT !.ModTime = NilTime] = [new[1] EXCEPT !.ModTime = NilTime]
    /\ DetailsAt(result, "/a") =
           <<"modification time changed: 1970-01-01T00:00:01Z -> 1970-01-01T00:00:02Z">>

\* C13 -- a "content changed (different MD5)" delta is produced for a common
\* path exactly if both entries carry a non-empty hash and the hashes differ;
\* with a hash missing on a side, a content difference alone never makes the
\* path Modified
C13_HashGating ==
    cpc = "done" =>
        \A p \in PathsOf(old) \cap PathsOf(new) :
            LET o == EntryAt(old, p)
                n == EntryAt(new, p)
            IN  /\ HasDetail(DetailsAt(result, p), "content changed (different MD5)")
                       <=> (o.MD5 # "" /\ n.MD5 # "" /\ o.MD5 # n.MD5)
                /\ (/\ [o EXCEPT !.MD5 = ""] = [n EXCEPT !.MD5 = ""]
                    /\ (o.MD5 = "" \/ n.MD5 = ""))
                       => DiffsAt(result, p) = {}

\* an entry with a hash has been compared with the same entry without one and
\* no diff was reported, and the hashes did differ
C13_Witness ==
    /\ cpc = "done"
    /\ Len(old) = 1 /\ Len(new) = 1
    /\ old[1].MD5 # "" /\ new[1].MD5 = ""
    /\ [old[1] EXCEPT !.MD5 = ""] = new[1]
    /\ result.Differences = <<>>

-----------------------------------------------------------------------------
(* Properties of the extraction *)

\* the destination of an entry of the snapshot
DestOf(file) == Join(<<args.OutputDir, getDestPath(file.Path, args.StripComponents)>>)

\* the entries the extraction loop has gone through that are not directories
\* and keep a component: those it called os.Lstat for
Reached ==
    {i \in DOMAIN files :
        /\ args.OutputDir # ""
        /\ wpc \in {"sorted", "exit"}
        /\ i < xi
        /\ ~files[i].IsDir
        /\ getDestPath(files[i].Path, args.StripComponents) # ""}

\* the entries copyFile was called for
Attempted == {i \in Reached : "Stat" \notin BadAt(broken, files[i].Path)}

\* the directories below the output directory
TargetDirs == {q \in DOMAIN targetFs : q # TargetDir /\ targetFs[q].kind = "dir"}

\* some warning on standard error starts with the given words
Warned(words) == \E i \in DOMAIN stderr : HasPrefix(stderr[i], words)

\* the extraction made the call on the path
Called(call, q) == \E i \in DOMAIN calls : calls[i] = <<call, q>>

\* C14 as claimed -- every directory below the destination root is an
\* ancestor of an extracted entry that is not a directory
C14_DirsHoldExtracted ==
    \A q \in TargetDirs :
        \E e \in DOMAIN targetFs : targetFs[e].kind # "dir" /\ q \in AncestorsOf(e)

\* C14 -- directories are not extracted as entries of their own: starting
\* from an empty destination, every directory below the destination root is
\* an ancestor of the destination of an entry, not a directory, that copyFile
\* was called for; when no call fails that entry has been extracted, so an
\* empty source directory is not reproduced
C14_DirsAreParents ==
    /\ \A q \in TargetDirs :
           \E i \in Attempted : q \in AncestorsOf(DestOf(files[i]))
    /\ broken = {} => C14_DirsHoldExtracted

\* a snapshot with the empty directory /etc/nginx and the file /etc/empty has
\* been extracted in full without a failure: the file is there, the
\* directory is not
C14_Witness ==
    /\ wpc = "exit" /\ exitStatus = 0
    /\ broken = {}
    /\ args.StripComponents = 0
    /\ tree = {"/", "/etc", "/etc/empty", "/etc/nginx"}
    /\ \E i \in DOMAIN files : files[i].Path = "/etc/nginx" /\ files[i].IsDir
    /\ "/inspect-target/etc/empty" \in DOMAIN targetFs
    /\ "/inspect-target/etc/nginx" \notin DOMAIN targetFs

\* C15 -- a symlink entry is recreated at its destination as a symlink whose
\* target is the raw target string of the source link, never a resolved path
\* and never a copy of the bytes it points to, and no chmod or chown is made
\* on it whatever the preserve flags are
C15_SymlinkRecreated ==
    \A i \in Attempted :
        files[i].SymlinkTo # "" =>
            LET d == DestOf(files[i])
            IN  /\ d \in DOMAIN targetFs =>
                       /\ targetFs[d].kind = "symlink"
                       /\ targetFs[d].target = files[i].SymlinkTo
                       /\ targetFs[d].target = NodeAt(files[i].Path).target
                       /\ targetFs[d].digest = ""
                /\ BadAt(broken, files[i].Path) = {} => d \in DOMAIN targetFs
                /\ ~Called("Chmod", d) /\ ~Called("Chown", d)
                /\ ~Called("OpenFile", d) /\ ~Called("Write", d)

\* /etc/link, whose target nginx/nginx.conf exists, has been extracted with
\* both preserve flags set
C15_Witness ==
    /\ wpc = "exit" /\ exitStatus = 0
    /\ args.PreservePermissions /\ args.PreserveOwner
    /\ args.StripComponents = 1
    /\ "/etc/nginx/nginx.conf" \in tree
    /\ "/inspect-target/link" \in DOMAIN targetFs
    /\ targetFs["/inspect-target/link"].kind = "symlink"
    /\ targetFs["/inspect-target/link"].target = "nginx/nginx.conf"

\* the calls whose failure makes the copy of an entry fail
CopyCalls == {"Stat", "MkdirAll", "Readlink", "Symlink", "Open", "OpenFile", "Copy"}

\* C16 -- when the copy of an entry fails (stat of the source, creation of the
\* parent directory, open, create or byte copy), the failure is reported on
\* standard error and every later entry is still attempted: the failure does
\* not end the extraction, does not change the exit status, and the full
\* snapshot is written afterwards
C16_FailurePolicy ==
    /\ \A i \in Reached :
           LET bad == BadAt(broken, files[i].Path)
           IN  /\ bad \cap CopyCalls # {} =>
                      \/ Warned("Warning: Cannot stat " \o files[i].Path)
                      \/ Warned("Warning: Failed to copy " \o files[i].Path \o ": ")
               /\ bad = {} =>
                      /\ DestOf(files[i]) \in DOMAIN targetFs
                      /\ files[i].SymlinkTo = "" =>
                             targetFs[DestOf(files[i])].digest
                                 = NodeAt(files[i].Path).digest
    /\ (wpc = "exit" /\ walkErr = "" /\ exitStatus # 2) =>
           /\ exitStatus = 0
           /\ stdout = <<[format |-> "json", files |-> files]>>
           /\ files = sortByPath(files)
           /\ args.OutputDir # "" => xi = Len(files) + 1

\* the open of /etc/empty failed, the later entry /etc/link was extracted
\* all the same, and the run ended with status 0 and the snapshot written
C16_Witness ==
    /\ wpc = "exit" /\ exitStatus = 0
    /\ broken = {<<"/etc/empty", "Open">>}
    /\ args.StripComponents = 0
    /\ Warned("Warning: Failed to copy /etc/empty: failed to open source file")
    /\ "/inspect-target/etc/empty" \notin DOMAIN targetFs
    /\ "/inspect-target/etc/link" \in DOMAIN targetFs
    /\ Len(stdout) = 1 /\ Len(stdout[1].files) >= 3

\* C17 -- a chmod or chown of the destination that fails is a warning:
\* copyFile reports success for the entry, the copied bytes stay in place and
\* the extraction goes on; when a flag is not set the chmod or chown is not
\* attempted
C17_AttributeWarnings ==
    \A i \in Attempted :
        LET bad == BadAt(broken, files[i].Path)
            src == NodeAt(files[i].Path)
            d == DestOf(files[i])
        IN  (files[i].SymlinkTo = "" /\ bad \cap CopyCalls = {}) =>
                /\ d \in DOMAIN targetFs
                /\ targetFs[d].kind = "file"
                /\ targetFs[d].digest = src.digest
                /\ ~Warned("Warning: Failed to copy " \o files[i].Path)
                /\ Called("Chmod", d) <=> args.PreservePermissions
                /\ Called("Chown", d) <=> args.PreserveOwner
                /\ (args.PreservePermissions /\ "Chmod" \in bad) =>
                       Warned("Warning: Could not preserve mode of " \o d)
                /\ (args.PreserveOwner /\ "Chown" \in bad) =>
                       Warned("Warning: Could not preserve ownership of " \o d)
                /\ targetFs[d].mode =
                       IF args.PreservePermissions /\ "Chmod" \notin bad
                           THEN src.mode ELSE CreatedMode(src.mode)
                /\ targetFs[d].uid =
                       IF args.PreserveOwner /\ "Chown" \notin bad THEN src.uid ELSE 0
                /\ wpc = "exit" => exitStatus = 0

\* /etc.bak has been extracted with --preserve-perms and a chmod that failed:
\* its bytes are in place under the mode the umask left, the warning is
\* written and the run ended with status 0
C17_Witness ==
    /\ wpc = "exit" /\ exitStatus = 0
    /\ args.PreservePermissions /\ ~args.PreserveOwner
    /\ args.StripComponents = 0
    /\ broken = {<<"/etc.bak", "Chmod">>}
    /\ "/inspect-target/etc.bak" \in DOMAIN targetFs
    /\ targetFs["/inspect-target/etc.bak"].digest = NodeAt("/etc.bak").digest
    /\ targetFs["/inspect-target/etc.bak"].mode = "-rw-r--r--"
    /\ Warned("Warning: Could not preserve mode of /inspect-target/etc.bak")
    /\ ~Called("Chown", "/inspect-target/etc.bak")

\* the nodes on which a call of the walk failed
FailedNodes == {b[1] : b \in broken}

\* the nodes of the tree at or beneath the walk root
UnderRoot == {p \in tree : args.Path = "/" \/ Beneath(p, args.Path)}

\* the paths the specification excludes from every snapshot
Excluded(p) ==
    \E dir \in {"/proc", "/sys", "/dev", "/inspect-target", "/inspect"} : Beneath(p, dir)

\* C18 -- an error on a node that is not the walk root (permission denied, or
\* the node vanished between the listing of its directory and its stat) is
\* not fatal: the node, and for a directory its subtree, is missing from the
\* snapshot, every other node under the root that is not excluded is in it,
\* the walk runs to its end and the exit status is 0
C18_NodeErrorsNonFatal ==
    (/\ wpc = "exit"
     /\ broken # {}
     /\ \A b \in broken : b[1] # args.Path /\ b[2].errno \in {"ENOENT", "EACCES"}) =>
        /\ exitStatus = 0
        /\ stdout # <<>>
        /\ PathsOf(Emitted) =
               {p \in UnderRoot : /\ ~Excluded(p)
                                  /\ \A q \in FailedNodes : ~Beneath(p, q)}

\* C19 -- an error at the walk root (root missing or unreadable), or an error
\* on a node that is neither a permission nor a not-exist error, ends the run
\* with an exit status other than 0 and no snapshot is written
C19_FatalWalkErrors ==
    (/\ wpc = "exit"
     /\ \E b \in broken : b[1] = args.Path \/ b[2].errno = "EIO") =>
        /\ exitStatus # 0
        /\ stdout = <<>>

\* C24 -- the glob is a leaf filter: with a glob configured a node is in the
\* snapshot exactly if it is reachable from the walk root, not excluded, and
\* its full path matches the pattern; a directory that does not match is left
\* out while its descendants are still visited
C24_GlobLeafFilter ==
    (wpc = "exit" /\ exitStatus = 0 /\ args.Pattern # "") =>
        PathsOf(Emitted) =
            {p \in UnderRoot : ~Excluded(p) /\ Match(args.Pattern, p) = "match"}

\* C25 -- when hashing is requested and reading a qualifying file (regular,
\* of non-zero size) fails, the walk is not aborted, the entry is in the
\* snapshot with all its other metadata, and its hash field holds a non-empty
\* error sentinel instead of a digest
C25_HashErrorsInline ==
    /\ \A b \in broken :
           LET info == NodeAt(b[1])
           IN  (/\ args.MD5
                /\ b[2] = "Open" /\ info.kind = "file" /\ info.size > 0
                /\ (args.Pattern = "" \/ Match(args.Pattern, b[1]) = "match")) =>
                   \E j \in DOMAIN files :
                       /\ files[j].Path = b[1]
                       /\ files[j].Size = info.size
                       /\ files[j].Mode = info.mode
                       /\ ~files[j].IsDir
                       /\ files[j].ModTime =
                              IF args.NoTimes THEN NilTime ELSE <<info.mtime>>
                       /\ HasPrefix(files[j].MD5, "error: ")
                       /\ files[j].MD5 # info.digest
    /\ wpc = "exit" => (exitStatus = 0 /\ Emitted = files)

\* the entries the extraction wrote: copyFile was called and returned nil
Written == {i \in Attempted : BadAt(broken, files[i].Path) \cap CopyCalls = {}}

\* the ownership repair of docker-inspector has run
Repaired ==
    /\ mpc = "exit" /\ exitStatus = 0
    /\ margs.Darwin /\ args.PreserveOwner

\* C27 -- the ownership repair is given one (destination path, uid, gid)
\* triple for exactly the entries the extraction wrote: none for a directory,
\* for an entry whose path was stripped away or for an entry whose copy
\* failed, and the path of each triple is the path the entry was written to
C27_RepairTriples ==
    Repaired =>
        /\ Len(script) = Cardinality(Written)
        /\ \A i \in Written :
               \E k \in DOMAIN script :
                   script[k] = [path |-> DestOf(files[i]),
                                uid |-> NodeAt(files[i].Path).uid,
                                gid |-> NodeAt(files[i].Path).gid]
        /\ \A k \in DOMAIN script :
               \E i \in Written : script[k].path = DestOf(files[i])

\* the entries of a list
EntriesOf(fs) == {fs[i] : i \in DOMAIN fs}

\* C28 -- in every Result of Compare each path occurs in at most one diff,
\* every diff path is a path of old or new that is not excluded, an Added diff
\* carries only the new entry, a Removed diff only the old entry, a Modified
\* diff both entries, of the same path, and details that are not empty; also
\* when a list holds a path more than once
C28_ChangeSetShape ==
    cpc = "done" =>
        /\ \A j, k \in DOMAIN result.Differences :
               j # k => result.Differences[j].Path # result.Differences[k].Path
        /\ \A j \in DOMAIN result.Differences :
               LET d == result.Differences[j]
               IN  /\ d.Path \in PathsOf(old) \cup PathsOf(new)
                   /\ ~Ignored(d.Path)
                   /\ d.Type \in {Added, Removed, Modified}
                   /\ d.Type = Added =>
                          /\ d.OldFile = ZeroFileInfo
                          /\ d.NewFile \in EntriesOf(new) /\ d.NewFile.Path = d.Path
                          /\ d.Details = <<>>
                   /\ d.Type = Removed =>
                          /\ d.NewFile = ZeroFileInfo
                          /\ d.OldFile \in EntriesOf(old) /\ d.OldFile.Path = d.Path
                          /\ d.Details = <<>>
                   /\ d.Type = Modified =>
                          /\ d.OldFile \in EntriesOf(old) /\ d.OldFile.Path = d.Path
                          /\ d.NewFile \in EntriesOf(new) /\ d.NewFile.Path = d.Path
                          /\ d.Details # <<>>

\* old holds /a twice, with two sizes, new holds /a once with the first of
\* them: Compare has returned one Modified diff for /a, against the later of
\* the two old entries
C28_Witness ==
    /\ cpc = "done"
    /\ Len(old) = 2 /\ old[1].Path = "/a" /\ old[2].Path = "/a"
    /\ old[1].Size # old[2].Size
    /\ new = <<old[1]>>
    /\ Len(result.Differences) = 1
    /\ result.Differences[1].Type = Modified
    /\ result.Differences[1].OldFile = old[2]

\* C29 -- for any stripComponents, two distinct entries of a snapshot that
\* are not directories and are not skipped are never written to the same
\* destination path, so no extracted entry overwrites or blocks another: at
\* the end of a run without failing calls each holds the bytes of its source
C29_NoCollisions ==
    /\ \A i, j \in Reached : i # j => DestOf(files[i]) # DestOf(files[j])
    /\ (wpc = "exit" /\ broken = {}) =>
           \A i \in Reached :
               /\ DestOf(files[i]) \in DOMAIN targetFs
               /\ targetFs[DestOf(files[i])].digest = NodeAt(files[i].Path).digest

\* the paths the walk has passed to its callback, and those it still holds
VisitedPaths == [j \in DOMAIN files |-> files[j].Path] \o [k \in DOMAIN todo |-> todo[k].path]

\* no node is visited twice, and a symlink is recorded with its raw target,
\* not as a directory, and with nothing visited beneath it
WalkedOnce ==
    /\ \A j, k \in DOMAIN VisitedPaths : j # k => VisitedPaths[j] # VisitedPaths[k]
    /\ \A j \in DOMAIN files :
           NodeAt(files[j].Path).kind = "symlink" =>
               /\ files[j].SymlinkTo = NodeAt(files[j].Path).target
               /\ ~files[j].IsDir
               /\ \A k \in DOMAIN VisitedPaths :
                      ~HasPrefix(VisitedPaths[k], files[j].Path \o "/")
    /\ wpc = "exit" =>
           /\ exitStatus = 0
           /\ {Emitted[j].Path : j \in DOMAIN Emitted} = UnderRoot
           /\ Len(Emitted) = Cardinality(UnderRoot)

\* C30 -- the walk ends on every finite tree and visits each node at most
\* once: a symlink is recorded with its raw target and never followed, so a
\* symlink to an ancestor directory adds exactly one entry and no descent
C30_WalkTerminates == [](WalkedOnce) /\ <>(wpc = "exit")

C30_Witness ==
    /\ wpc = "exit"
    /\ args.Path = "/"
    /\ \E j \in DOMAIN Emitted :
           /\ Emitted[j].Path = "/etc/loop"
           /\ Emitted[j].SymlinkTo = "/etc"
    /\ \E j \in DOMAIN Emitted : Emitted[j].Path = "/etc/empty"

\* C20 -- a malformed glob pattern is fatal: the walk is aborted as soon as
\* the pattern is found invalid, no further node is visited, no file is
\* extracted, no snapshot is written and the exit status is not 0
C20_MalformedGlobFatal ==
    (Match(args.Pattern, "/") = "error" /\ wpc = "exit") =>
        /\ exitStatus # 0
        /\ stdout = <<>>
        /\ files = <<>>
        /\ targetFs = EmptyTarget
        /\ calls = <<>>

====
